---- MODULE Spec2Model ----
(***************************************************************************)
(* Model of the log-streaming client of fastapi_cloud_cli/utils/api.py:    *)
(* the attempt() context manager, the attempts() retrying decorator and    *)
(* APIClient.stream_build_logs with its line parser, run against a build   *)
(* log server that replays its log from the start when no last_id is sent  *)
(* and resumes after the entry carrying last_id otherwise.                 *)
(***************************************************************************)
EXTENDS Integers, Sequences, FiniteSets, TLC

(* ---------------------------- bounds ----------------------------------- *)
MaxLogLen == 2
MaxId == 2
MaxRotations == 1
MaxTotalAttempts == 7
MaxAppLines == 3
MaxLiveAttempts == 2
MaxPairAttempts == 2
MaxPairLines == 2
MaxCursorAttempts == 2
MaxCursorLines == 3
MaxLogsAttempts == 2
MaxWaitAttempts == 2
MaxTime == 2
MaxPostId == 2
MaxPostTime == 1

(* ------------------------ program constants ---------------------------- *)
STREAM_LOGS_MAX_RETRIES == 3
STREAM_LOGS_TIMEOUT == 300
RECONNECT_HALF_SECONDS == 1
BACKOFF_CAP == 30

(* time is counted in half seconds, the granularity of time.sleep(0.5) *)
TicksPerSecond == 2
TimeoutTicks == STREAM_LOGS_TIMEOUT * TicksPerSecond
ClockCap == TimeoutTicks + 1

NoId == 0
Ids == 1..MaxId

Min(a, b) == IF a < b THEN a ELSE b

RECURSIVE Pow2(_)
Pow2(n) == IF n = 0 THEN 1 ELSE 2 * Pow2(n - 1)

(* variant: the delay is not capped *)
backoff_seconds_NoCap(attempt_number) == Pow2(attempt_number)

(* variant: the exponent is off by one *)
backoff_seconds_OffByOne(attempt_number) == Min(Pow2(attempt_number + 1), BACKOFF_CAP)

(* attempt()._backoff: min(2**attempt_number, 30) seconds *)
backoff_seconds(attempt_number) == Min(Pow2(attempt_number), BACKOFF_CAP)

(* ------------------------------ wire lines ----------------------------- *)
(* A raw line of the response body.  json = FALSE is text that does not    *)
(* decode as JSON; blank = TRUE is an empty or whitespace-only line.  A    *)
(* JSON line is an object with an optional "type", "message" and "id".     *)
Absent == "absent"

Line(t, m, i) == [blank |-> FALSE, json |-> TRUE, type |-> t, message |-> m, id |-> i]
BlankLine == [blank |-> TRUE, json |-> FALSE, type |-> Absent, message |-> Absent, id |-> NoId]
NotJsonLine == [blank |-> FALSE, json |-> FALSE, type |-> Absent, message |-> Absent, id |-> NoId]
BogusTypeLine == Line("bogus", Absent, NoId)
MessageNoTextLine == Line("message", Absent, NoId)

(* events of the build that the server stores and replays *)
LogLines ==
    { Line("message", "hi", i) : i \in Ids \cup {NoId} }
    \cup { Line(t, Absent, i) : t \in {"complete", "failed", "heartbeat"}, i \in Ids \cup {NoId} }

(* lines a connection can carry that decode to nothing *)
NoiseLines == {BlankLine, NotJsonLine, BogusTypeLine, MessageNoTextLine}

(* the server's rotation marker: it ends the connection and asks the       *)
(* client to reconnect; it is no stored event and carries no id            *)
TimeoutLine == Line("timeout", Absent, NoId)

NoLine == [blank |-> FALSE, json |-> FALSE, type |-> "none", message |-> Absent, id |-> NoId]

(* BuildLogAdapter.validate_json inside _parse_log_line: None on failure *)
None == [type |-> "None", message |-> Absent, id |-> NoId]

(* a "message" (or "id") field whose JSON value is not a string: pydantic   *)
(* does not coerce it to str, validation fails                             *)
NotAString == "not a string"
BadId == 0 - 1

(* the id "": a string, so it passes validation, but false in a condition *)
EmptyId == 0 - 2

(* "if log_line.id:" and "if last_id": neither None nor "" *)
Truthy(id) == id \notin {NoId, EmptyId}

(* variant: the message variant does not require its message field *)
_parse_log_line_MessageOptional(line) ==
    IF ~line.json \/ line.message = NotAString \/ line.id = BadId THEN None
    ELSE IF line.type = "message"
         THEN [type |-> "message", message |-> line.message, id |-> line.id]
    ELSE IF line.type \in {"complete", "failed", "timeout", "heartbeat"}
         THEN [type |-> line.type, message |-> Absent, id |-> line.id]
    ELSE None

(* JSONDecodeError and ValidationError are caught and give None; the       *)
(* generic variants ignore a "message" field                               *)
_parse_log_line(line) ==
    IF ~line.json THEN None
    ELSE IF line.id = BadId THEN None
    ELSE IF line.type = "message"
         THEN IF line.message \in {Absent, NotAString} THEN None
              ELSE [type |-> "message", message |-> line.message, id |-> line.id]
    ELSE IF line.type \in {"complete", "failed", "timeout", "heartbeat"}
         THEN [type |-> line.type, message |-> Absent, id |-> line.id]
    ELSE None

(* ------------------------------ the server ----------------------------- *)
(* ids are unique in a stored log *)
UniqueIds(l) ==
    \A i, j \in 1..Len(l) : (i # j /\ l[i].id # NoId) => l[i].id # l[j].id

(* number of stored entries a connection skips: none without last_id,      *)
(* everything up to and including the entry carrying last_id otherwise     *)
ResumePos(l, param) ==
    IF param = NoId \/ ~(\E i \in 1..Len(l) : l[i].id = param) THEN 0
    ELSE CHOOSE i \in 1..Len(l) : l[i].id = param

(* time a blocking read can take in all, in ticks *)
LongWait == STREAM_LOGS_TIMEOUT * TicksPerSecond
Delays == {0, LongWait}

ErrorStatuses == {404, 499, 500, 503}

(* the statuses of a rejected token *)
AuthStatuses == {401, 403}

(* ------------------------------- state --------------------------------- *)
VARIABLES
    log,             \* the server's stored build log
    total_attempts,  \* attempts(total_attempts, timeout)
    pc,              \* position of the wrapper / generator
    attempt_number,  \* loop variable of wrapper's for loop
    last_id,         \* stream_build_logs' local cursor
    pos,             \* stored entries already passed on the open connection
    lastLine,        \* raw line the generator received most recently
    delivered,       \* events yielded to the caller, in order, with their attempt
    requests,        \* connections opened: attempt and last_id parameter
    sleeps,          \* backoff sleeps performed: attempt and seconds
    now,             \* time.monotonic() - start, in ticks, saturating
    invocations,     \* calls of func(...)
    rotations,       \* timeout markers the server has sent
    sent,            \* well-formed lines the connections carried, with their attempt
    last_error,      \* exception the running attempt ended with
    prev_cursor,     \* last_id of the previous attempt's generator when it failed
    call,            \* the decorated function called and its arguments
    parsed,          \* value returned by a direct call of _parse_log_line
    streams,         \* number of HTTP streams the call holds open
    cli,             \* the command around the call: its prints and its exit
    pair,            \* two calls running side by side on one client
    outcome          \* how the call ended

vars == <<log, total_attempts, pc, attempt_number, last_id, pos, lastLine,
          delivered, requests, sleeps, now, invocations, rotations, sent,
          last_error, prev_cursor, call, parsed, streams, cli, pair, outcome>>

Running == "running"

(* client.stream_build_logs(deployment.id) *)
BuildCall == [func |-> "stream_build_logs", deployment_id |-> "dep"]

(* the call is not made by a command; no second call runs beside it *)
NoCommand == [name |-> "none"]
NoPair == [frames |-> <<>>]

(* no direct parser call has been made *)
NotCalled == [type |-> "not called", message |-> Absent, id |-> NoId]
Outcome(k, status, detail) == [kind |-> k, status |-> status, detail |-> detail]

Advance(t, d) == Min(t + d, ClockCap)

(* the state in which wrapper starts: start = time.monotonic() has just   *)
(* been taken, nothing has been requested, received, delivered or slept   *)
Begin(attempts_allowed, first_pc, c, command, p) ==
    /\ log = <<>>
    /\ total_attempts \in attempts_allowed
    /\ pc = first_pc
    /\ attempt_number = 0
    /\ last_id = NoId
    /\ pos = 0
    /\ lastLine = NoLine
    /\ delivered = <<>>
    /\ requests = <<>>
    /\ sleeps = <<>>
    /\ now = 0
    /\ invocations = 0
    /\ rotations = 0
    /\ sent = <<>>
    /\ last_error = [kind |-> "none", status |-> 0]
    /\ prev_cursor = NoId
    /\ call = c
    /\ parsed = NotCalled
    /\ streams = 0
    /\ cli = command
    /\ pair = p
    /\ outcome = Outcome(Running, 0, "-")

Init == Begin(1..STREAM_LOGS_MAX_RETRIES, "loop", BuildCall, NoCommand, NoPair)

(* ------------------------- attempts().wrapper -------------------------- *)
(* variant: start = time.monotonic() is taken inside the for loop, so the  *)
(* elapsed time measured at the head of an attempt is always zero          *)
TimedOut_PerAttempt == now - now > TimeoutTicks

(* time.monotonic() - start > timeout.total_seconds() *)
TimedOut == now > TimeoutTicks

(* the check at the head of the for loop raises TimeoutError *)
RaiseTimeout ==
    /\ pc = "loop"
    /\ attempt_number < total_attempts
    /\ TimedOut
    /\ pc' = "done"
    /\ outcome' = Outcome("TimeoutError", 0, "-")
    /\ UNCHANGED <<log, total_attempts, attempt_number, last_id, pos, lastLine,
                   delivered, requests, sleeps, now, invocations, rotations,
                   last_error, prev_cursor, sent, call, parsed, streams, cli, pair>>

(* variant: the head of the loop does not look at the clock *)
Invoke_NoBudgetCheck ==
    /\ pc = "loop"
    /\ attempt_number < total_attempts
    /\ invocations' = invocations + 1
    /\ last_id' = NoId
    /\ lastLine' = NoLine
    /\ pc' = "connect"
    /\ UNCHANGED <<log, total_attempts, attempt_number, pos, delivered,
                   requests, sleeps, now, rotations, last_error, prev_cursor,
                   outcome, sent, call, parsed, streams, cli, pair>>

(* variant: the loop runs once more, range(total_attempts + 1) *)
Invoke_ExtraAttempt ==
    /\ pc = "loop"
    /\ attempt_number <= total_attempts
    /\ ~TimedOut
    /\ invocations' = invocations + 1
    /\ last_id' = NoId
    /\ lastLine' = NoLine
    /\ pc' = "connect"
    /\ UNCHANGED <<log, total_attempts, attempt_number, pos, delivered,
                   requests, sleeps, now, rotations, last_error, prev_cursor,
                   outcome, sent, call, parsed, streams, cli, pair>>

(* with attempt(attempt_number): yield from func(...)                      *)
(* func is stream_build_logs: a new generator, whose body starts with      *)
(* last_id = None                                                          *)
Invoke ==
    /\ pc = "loop"
    /\ attempt_number < total_attempts
    /\ ~TimedOut
    /\ invocations' = invocations + 1
    /\ last_id' = NoId
    /\ lastLine' = NoLine
    /\ pc' = "connect"
    /\ UNCHANGED <<log, total_attempts, attempt_number, pos, delivered,
                   requests, sleeps, now, rotations, last_error, prev_cursor,
                   outcome, sent, call, parsed, streams, cli, pair>>

(* variant: nothing is raised after the for loop: wrapper falls off its   *)
(* end and the generator just finishes                                     *)
RaiseTooManyRetries_FallsThrough ==
    /\ pc = "loop"
    /\ attempt_number >= total_attempts
    /\ pc' = "done"
    /\ outcome' = Outcome("returned", 0, "-")
    /\ UNCHANGED <<log, total_attempts, attempt_number, last_id, pos, lastLine,
                   delivered, requests, sleeps, now, invocations, rotations,
                   last_error, prev_cursor, sent, call, parsed, streams, cli, pair>>

(* the for loop is exhausted: raise TooManyRetriesError *)
RaiseTooManyRetries ==
    /\ pc = "loop"
    /\ attempt_number >= total_attempts
    /\ pc' = "done"
    /\ outcome' = Outcome("TooManyRetriesError", 0, "-")
    /\ UNCHANGED <<log, total_attempts, attempt_number, last_id, pos, lastLine,
                   delivered, requests, sleeps, now, invocations, rotations,
                   last_error, prev_cursor, sent, call, parsed, streams, cli, pair>>

(* ------------------------------ attempt() ------------------------------ *)
(* variant: every status error is retried *)
IsTransientStatus_AnyError(status) == status >= 400

(* variant: the comparison is strict, status_code > 500 *)
IsTransientStatus_Above500(status) == status > 500

(* HTTPStatusError: status_code >= 500 is retried, anything else raised *)
IsTransientStatus(status) == status >= 500

(* error_detail: error.response.text, or the placeholder when it raises *)
ErrorDetail(readable) == IF readable THEN "body" ELSE "(response body unavailable)"

(* variant: what a failed attempt yielded is taken back when it fails *)
Backoff_ForgetsDelivered ==
    /\ pc = "backoff"
    /\ sleeps' = Append(sleeps, [attempt |-> attempt_number,
                                 seconds |-> backoff_seconds(attempt_number)])
    /\ now' = Advance(now, backoff_seconds(attempt_number) * TicksPerSecond)
    /\ attempt_number' = attempt_number + 1
    /\ prev_cursor' = last_id
    /\ last_error' = [kind |-> "none", status |-> 0]
    /\ pc' = "loop"
    /\ delivered' = SelectSeq(delivered, LAMBDA d : d.attempt # attempt_number)
    /\ UNCHANGED <<log, total_attempts, last_id, pos, lastLine,
                   requests, invocations, rotations, outcome, sent, call, parsed, streams, cli, pair>>

(* _backoff(): time.sleep(min(2**attempt_number, 30)); the exception is    *)
(* swallowed, the with block ends and the for loop takes the next          *)
(* attempt_number                                                          *)
Backoff ==
    /\ pc = "backoff"
    /\ sleeps' = Append(sleeps, [attempt |-> attempt_number,
                                 seconds |-> backoff_seconds(attempt_number)])
    /\ now' = Advance(now, backoff_seconds(attempt_number) * TicksPerSecond)
    /\ attempt_number' = attempt_number + 1
    /\ prev_cursor' = last_id
    /\ last_error' = [kind |-> "none", status |-> 0]
    /\ pc' = "loop"
    /\ UNCHANGED <<log, total_attempts, last_id, pos, lastLine, delivered,
                   requests, invocations, rotations, outcome, sent, call, parsed, streams, cli, pair>>

(* ---------------------- APIClient.stream_build_logs -------------------- *)
(* params = {"last_id": last_id} if last_id else None *)
Params(id) == IF Truthy(id) THEN id ELSE NoId

(* the request of self.stream(...): stream_build_logs sends last_id,       *)
(* stream_app_logs its tail, since and follow arguments with timeout       *)
(* 120 if follow else 30                                                   *)
Request ==
    IF call.func = "stream_build_logs"
    THEN [attempt |-> attempt_number, last_id |-> Params(last_id)]
    ELSE [attempt |-> attempt_number, tail |-> call.tail, since |-> call.since,
          follow |-> call.follow, timeout |-> IF call.follow THEN 120 ELSE 30]

(* with self.stream("GET", ..., params=params) as response:                *)
(*     response.raise_for_status()                                         *)
ConnectOk ==
    /\ pc = "connect"
    /\ requests' = Append(requests, Request)
    /\ pos' = ResumePos(log, Params(last_id))
    /\ pc' = "read"
    /\ streams' = streams + 1
    /\ UNCHANGED <<log, total_attempts, attempt_number, last_id, lastLine,
                   delivered, sleeps, now, invocations, rotations, last_error,
                   prev_cursor, outcome, sent, call, parsed, cli, pair>>

(* self.stream raises a timeout, network or protocol error *)
ConnectNetworkError ==
    /\ pc = "connect"
    /\ requests' = Append(requests, Request)
    /\ last_error' = [kind |-> "network", status |-> 0]
    /\ pc' = "backoff"
    /\ UNCHANGED <<log, total_attempts, attempt_number, last_id, pos, lastLine,
                   delivered, sleeps, now, invocations, rotations, prev_cursor,
                   outcome, sent, call, parsed, streams, cli, pair>>

(* raise_for_status() raises HTTPStatusError, handled by attempt() *)
ConnectStatusError(status, readable) ==
    /\ pc = "connect"
    /\ status \in ErrorStatuses \cup AuthStatuses
    /\ requests' = Append(requests, Request)
    /\ last_error' = [kind |-> "status", status |-> status]
    /\ IF IsTransientStatus(status)
       THEN /\ pc' = "backoff"
            /\ UNCHANGED outcome
       ELSE /\ pc' = "done"
            /\ outcome' = Outcome("StreamLogError", status, ErrorDetail(readable))
    /\ UNCHANGED <<log, total_attempts, attempt_number, last_id, pos, lastLine,
                   delivered, sleeps, now, invocations, rotations, prev_cursor, sent, call, parsed, streams, cli, pair>>

(* variant: no return after yielding complete/failed *)
Process_NoReturn(line) ==
    LET log_line == _parse_log_line(line)
        skipped == line.blank \/ log_line = None
    IN  /\ lastLine' = line
        /\ streams' = IF ~skipped /\ log_line.type = "timeout" THEN streams - 1 ELSE streams
        /\ last_id' = IF ~skipped /\ Truthy(log_line.id) THEN log_line.id ELSE last_id
        /\ delivered' = IF ~skipped /\ log_line.type \in {"message", "complete", "failed"}
                        THEN Append(delivered, [attempt |-> attempt_number, event |-> log_line])
                        ELSE delivered
        /\ pc' = IF skipped THEN "read"
                 ELSE IF log_line.type \in {"message", "complete", "failed"} THEN "yield_message"
                 ELSE IF log_line.type = "timeout" THEN "reconnect"
                 ELSE "read"

(* variant: the cursor only moves forward, last_id = max(last_id, id) *)
Process_ForwardOnly(line) ==
    LET log_line == _parse_log_line(line)
        skipped == line.blank \/ log_line = None
    IN  /\ lastLine' = line
        /\ streams' = IF ~skipped /\ log_line.type = "timeout" THEN streams - 1 ELSE streams
        /\ last_id' = IF ~skipped /\ log_line.id # NoId /\ log_line.id > last_id
                      THEN log_line.id ELSE last_id
        /\ delivered' = IF ~skipped /\ log_line.type \in {"message", "complete", "failed"}
                        THEN Append(delivered, [attempt |-> attempt_number, event |-> log_line])
                        ELSE delivered
        /\ pc' = IF skipped THEN "read"
                 ELSE IF log_line.type = "message" THEN "yield_message"
                 ELSE IF log_line.type \in {"complete", "failed"} THEN "yield_terminal"
                 ELSE IF log_line.type = "timeout" THEN "reconnect"
                 ELSE "read"

(* variant: time.sleep(0.5) is inside the with block, so the stream is     *)
(* still held during the reconnect wait and when the next one is opened    *)
Process_SleepInsideWith(line) ==
    LET log_line == _parse_log_line(line)
        skipped == line.blank \/ log_line = None
    IN  /\ lastLine' = line
        /\ streams' = streams
        /\ last_id' = IF ~skipped /\ Truthy(log_line.id) THEN log_line.id ELSE last_id
        /\ delivered' = IF ~skipped /\ log_line.type \in {"message", "complete", "failed"}
                        THEN Append(delivered, [attempt |-> attempt_number, event |-> log_line])
                        ELSE delivered
        /\ pc' = IF skipped THEN "read"
                 ELSE IF log_line.type = "message" THEN "yield_message"
                 ELSE IF log_line.type \in {"complete", "failed"} THEN "yield_terminal"
                 ELSE IF log_line.type = "timeout" THEN "reconnect"
                 ELSE "read"

(* variant: a yielded event overtakes the events yielded before it *)
Process_NewestFirst(line) ==
    LET log_line == _parse_log_line(line)
        skipped == line.blank \/ log_line = None
    IN  /\ lastLine' = line
        /\ streams' = IF ~skipped /\ log_line.type = "timeout" THEN streams - 1 ELSE streams
        /\ last_id' = IF ~skipped /\ Truthy(log_line.id) THEN log_line.id ELSE last_id
        /\ delivered' = IF ~skipped /\ log_line.type \in {"message", "complete", "failed"}
                        THEN <<[attempt |-> attempt_number, event |-> log_line]>> \o delivered
                        ELSE delivered
        /\ pc' = IF skipped THEN "read"
                 ELSE IF log_line.type = "message" THEN "yield_message"
                 ELSE IF log_line.type \in {"complete", "failed"} THEN "yield_terminal"
                 ELSE IF log_line.type = "timeout" THEN "reconnect"
                 ELSE "read"

(* variant: heartbeat events are yielded like message events *)
Process_YieldHeartbeat(line) ==
    LET log_line == _parse_log_line(line)
        skipped == line.blank \/ log_line = None
    IN  /\ lastLine' = line
        /\ streams' = IF ~skipped /\ log_line.type = "timeout" THEN streams - 1 ELSE streams
        /\ last_id' = IF ~skipped /\ Truthy(log_line.id) THEN log_line.id ELSE last_id
        /\ delivered' = IF ~skipped /\ log_line.type \in {"message", "complete", "failed", "heartbeat"}
                        THEN Append(delivered, [attempt |-> attempt_number, event |-> log_line])
                        ELSE delivered
        /\ pc' = IF skipped THEN "read"
                 ELSE IF log_line.type \in {"message", "heartbeat"} THEN "yield_message"
                 ELSE IF log_line.type \in {"complete", "failed"} THEN "yield_terminal"
                 ELSE IF log_line.type = "timeout" THEN "reconnect"
                 ELSE "read"

(* variant: a timeout event is yielded like a message before reconnecting *)
Process_YieldTimeout(line) ==
    LET log_line == _parse_log_line(line)
        skipped == line.blank \/ log_line = None
    IN  /\ lastLine' = line
        /\ streams' = IF ~skipped /\ log_line.type = "timeout" THEN streams - 1 ELSE streams
        /\ last_id' = IF ~skipped /\ Truthy(log_line.id) THEN log_line.id ELSE last_id
        /\ delivered' = IF ~skipped /\ log_line.type \in {"message", "complete", "failed", "timeout"}
                        THEN Append(delivered, [attempt |-> attempt_number, event |-> log_line])
                        ELSE delivered
        /\ pc' = IF skipped THEN "read"
                 ELSE IF log_line.type = "message" THEN "yield_message"
                 ELSE IF log_line.type \in {"complete", "failed"} THEN "yield_terminal"
                 ELSE IF log_line.type = "timeout" THEN "reconnect"
                 ELSE "read"

(* variant: the cursor is moved where an event is yielded, so heartbeat    *)
(* and timeout lines never move it                                         *)
Process_CursorOnYield(line) ==
    LET log_line == _parse_log_line(line)
        skipped == line.blank \/ log_line = None
    IN  /\ lastLine' = line
        /\ streams' = IF ~skipped /\ log_line.type = "timeout" THEN streams - 1 ELSE streams
        /\ last_id' = IF ~skipped /\ Truthy(log_line.id)
                         /\ log_line.type \in {"message", "complete", "failed"}
                      THEN log_line.id ELSE last_id
        /\ delivered' = IF ~skipped /\ log_line.type \in {"message", "complete", "failed"}
                        THEN Append(delivered, [attempt |-> attempt_number, event |-> log_line])
                        ELSE delivered
        /\ pc' = IF skipped THEN "read"
                 ELSE IF log_line.type = "message" THEN "yield_message"
                 ELSE IF log_line.type \in {"complete", "failed"} THEN "yield_terminal"
                 ELSE IF log_line.type = "timeout" THEN "reconnect"
                 ELSE "read"

(* body of "for line in response.iter_lines()" for one received line *)
Process(line) ==
    LET log_line == _parse_log_line(line)
        skipped == line.blank \/ log_line = None
    IN  /\ lastLine' = line
        /\ streams' = IF ~skipped /\ log_line.type = "timeout" THEN streams - 1 ELSE streams
        /\ last_id' = IF ~skipped /\ Truthy(log_line.id) THEN log_line.id ELSE last_id
        /\ delivered' = IF ~skipped /\ log_line.type \in {"message", "complete", "failed"}
                        THEN Append(delivered, [attempt |-> attempt_number, event |-> log_line])
                        ELSE delivered
        /\ pc' = IF skipped THEN "read"
                 ELSE IF log_line.type = "message" THEN "yield_message"
                 ELSE IF log_line.type \in {"complete", "failed"} THEN "yield_terminal"
                 ELSE IF log_line.type = "timeout" THEN "reconnect"
                 ELSE "read"

(* the build goes on: the server stores the next event of the build, which *)
(* the waiting connection has not seen yet                                 *)
ServerAppend(line) ==
    /\ pc = "read"
    /\ pos = Len(log)
    /\ Len(log) < MaxLogLen
    /\ line \in LogLines
    /\ UniqueIds(Append(log, line))
    /\ log' = Append(log, line)
    /\ UNCHANGED <<total_attempts, pc, attempt_number, last_id, pos, lastLine,
                   delivered, requests, sleeps, now, invocations, rotations,
                   last_error, prev_cursor, outcome, sent, call, parsed, streams, cli, pair>>

(* the server sends the next stored entry *)
ReadEvent(d) ==
    /\ pc = "read"
    /\ pos < Len(log)
    /\ pos' = pos + 1
    /\ now' = Advance(now, d)
    /\ sent' = Append(sent, [attempt |-> attempt_number, line |-> log[pos + 1]])
    /\ Process(log[pos + 1])
    /\ UNCHANGED <<log, total_attempts, attempt_number, requests, sleeps,
                   invocations, rotations, last_error, prev_cursor, outcome, call, parsed, cli, pair>>

(* the connection carries a line that decodes to nothing *)
ReadNoise(line) ==
    /\ pc = "read"
    /\ line \in NoiseLines
    /\ Process(line)
    /\ UNCHANGED <<log, total_attempts, attempt_number, pos, requests, sleeps,
                   now, invocations, rotations, last_error, prev_cursor, outcome, sent, call, parsed, cli, pair>>

(* the server rotates the connection: it sends a timeout marker *)
ReadTimeoutMarker ==
    /\ pc = "read"
    /\ rotations < MaxRotations
    /\ rotations' = rotations + 1
    /\ sent' = Append(sent, [attempt |-> attempt_number, line |-> TimeoutLine])
    /\ Process(TimeoutLine)
    /\ UNCHANGED <<log, total_attempts, attempt_number, pos, requests, sleeps,
                   now, invocations, last_error, prev_cursor, outcome, call, parsed, cli, pair>>

(* variant: the end of the response is taken for the end of the log *)
ReadClosed_Return ==
    /\ pc = "read"
    /\ pc' = "done"
    /\ outcome' = Outcome("returned", 0, "-")
    /\ streams' = streams - 1
    /\ UNCHANGED <<log, total_attempts, attempt_number, last_id, pos, lastLine,
                   delivered, requests, sleeps, now, invocations, rotations,
                   last_error, prev_cursor, sent, call, parsed, cli, pair>>

(* iter_lines() ends: the for loop's else branch raises                    *)
(* httpx.NetworkError("Connection closed without terminal state")          *)
ReadClosed ==
    /\ pc = "read"
    /\ last_error' = [kind |-> "closed", status |-> 0]
    /\ pc' = "backoff"
    /\ streams' = streams - 1
    /\ UNCHANGED <<log, total_attempts, attempt_number, last_id, pos, lastLine,
                   delivered, requests, sleeps, now, invocations, rotations,
                   prev_cursor, outcome, sent, call, parsed, cli, pair>>

(* iter_lines() raises (read timeout, connection reset, protocol error) *)
ReadError(d) ==
    /\ pc = "read"
    /\ now' = Advance(now, d)
    /\ last_error' = [kind |-> "network", status |-> 0]
    /\ pc' = "backoff"
    /\ streams' = streams - 1
    /\ UNCHANGED <<log, total_attempts, attempt_number, last_id, pos, lastLine,
                   delivered, requests, sleeps, invocations, rotations,
                   prev_cursor, outcome, sent, call, parsed, cli, pair>>

(* the caller asks for the next item after a yielded message *)
ResumeAfterMessage ==
    /\ pc = "yield_message"
    /\ pc' = "read"
    /\ UNCHANGED <<log, total_attempts, attempt_number, last_id, pos, lastLine,
                   delivered, requests, sleeps, now, invocations, rotations,
                   last_error, prev_cursor, outcome, sent, call, parsed, streams, cli, pair>>

(* variant: the wrapper lacks the return after "yield from": the for loop  *)
(* goes on with the next attempt                                           *)
ReturnAfterTerminal_NoReturn ==
    /\ pc = "yield_terminal"
    /\ pc' = "loop"
    /\ attempt_number' = attempt_number + 1
    /\ streams' = streams - 1
    /\ UNCHANGED <<log, total_attempts, last_id, pos, lastLine, delivered,
                   requests, sleeps, now, invocations, rotations, last_error,
                   prev_cursor, outcome, sent, call, parsed, cli, pair>>

(* resumed after yielding complete/failed: return; the with blocks end     *)
(* and the wrapper returns as well                                         *)
ReturnAfterTerminal ==
    /\ pc = "yield_terminal"
    /\ pc' = "done"
    /\ outcome' = Outcome("returned", 0, "-")
    /\ streams' = streams - 1
    /\ UNCHANGED <<log, total_attempts, attempt_number, last_id, pos, lastLine,
                   delivered, requests, sleeps, now, invocations, rotations,
                   last_error, prev_cursor, sent, call, parsed, cli, pair>>

(* after the break on a timeout event the stream is released:              *)
(* time.sleep(0.5), then the while loop connects again                     *)
ReconnectSleep ==
    /\ pc = "reconnect"
    /\ now' = Advance(now, RECONNECT_HALF_SECONDS)
    /\ pc' = "connect"
    /\ UNCHANGED <<log, total_attempts, attempt_number, last_id, pos, lastLine,
                   delivered, requests, sleeps, invocations, rotations,
                   last_error, prev_cursor, outcome, sent, call, parsed, streams, cli, pair>>

Next ==
    \/ RaiseTimeout
    \/ Invoke
    \/ RaiseTooManyRetries
    \/ Backoff
    \/ ConnectOk
    \/ ConnectNetworkError
    \/ \E status \in ErrorStatuses, readable \in BOOLEAN : ConnectStatusError(status, readable)
    \/ \E line \in LogLines : ServerAppend(line)
    \/ \E d \in Delays : ReadEvent(d)
    \/ \E line \in NoiseLines : ReadNoise(line)
    \/ ReadTimeoutMarker
    \/ ReadClosed
    \/ \E d \in Delays : ReadError(d)
    \/ ResumeAfterMessage
    \/ ReturnAfterTerminal
    \/ ReconnectSleep

Spec == Init /\ [][Next]_vars

TypeOK ==
    /\ pc \in {"loop", "connect", "read", "backoff", "reconnect",
               "yield_message", "yield_terminal", "done"}
    /\ total_attempts \in 1..STREAM_LOGS_MAX_RETRIES
    /\ attempt_number \in 0..total_attempts
    /\ last_id \in Ids \cup {NoId}
    /\ prev_cursor \in Ids \cup {NoId}
    /\ pos \in 0..Len(log)
    /\ Len(log) <= MaxLogLen
    /\ now \in 0..ClockCap
    /\ rotations \in 0..MaxRotations
    /\ (pc = "done") = (outcome.kind # Running)
    /\ call = BuildCall
    /\ parsed = NotCalled

(* ------------------------------ properties ----------------------------- *)
(* transient failures so far: every one of them ends in one _backoff() *)
Failures == Len(sleeps)

(* the delay of section 4.1, written independently of backoff_seconds *)
ExpectedDelay(n) == IF n < 5 THEN 2 ^ n ELSE 30

Last(seq) == seq[Len(seq)]
IsTerminal(e) == e.type \in {"complete", "failed"}

(* C1: the producer is never invoked more than total_attempts times; when   *)
(* every invocation failed with a transient error and the time budget was   *)
(* not exceeded, the call ends with TooManyRetriesError after exactly       *)
(* total_attempts invocations.                                              *)
C1_BoundedAttempts ==
    /\ invocations <= total_attempts
    /\ (pc = "done" /\ Failures = invocations /\ outcome.kind # "TimeoutError")
         => (outcome.kind = "TooManyRetriesError" /\ invocations = total_attempts)
    /\ outcome.kind = "TooManyRetriesError"
         => (invocations = total_attempts /\ Failures = total_attempts)

C1_Witness ==
    /\ outcome.kind = "TooManyRetriesError"
    /\ total_attempts = 3
    /\ invocations = 3
    /\ Len(delivered) > 0

(* C2: when the call returns normally after k failed attempts, exactly k    *)
(* backoff sleeps were performed, the i-th one after attempt i-1 and of     *)
(* min(2^(i-1), 30) seconds, and the events delivered last are those of     *)
(* attempt k+1.                                                             *)
C2_BackoffSequence ==
    /\ Len(sleeps) <= attempt_number
    /\ \A i \in 1..Len(sleeps) :
           sleeps[i] = [attempt |-> i - 1, seconds |-> ExpectedDelay(i - 1)]
    /\ outcome.kind = "returned" =>
           /\ Len(sleeps) = attempt_number
           /\ invocations = attempt_number + 1
           /\ Len(delivered) > 0
           /\ Last(delivered).attempt = attempt_number

C2_Witness ==
    /\ outcome.kind = "returned"
    /\ attempt_number = 2
    /\ sleeps = <<[attempt |-> 0, seconds |-> 1], [attempt |-> 1, seconds |-> 2]>>

(* C3: an HTTP status error in [400,499] ends the call at once with         *)
(* StreamLogError 'HTTP <status>: <body or placeholder>': no backoff sleep  *)
(* for that failure, no further invocation; a StreamLogError comes from     *)
(* nothing else.                                                            *)
C3_ClientErrorFatal ==
    /\ (last_error.kind = "status" /\ last_error.status < 500)
         => (pc = "done" /\ outcome.kind = "StreamLogError"
             /\ outcome.status = last_error.status)
    /\ outcome.kind = "StreamLogError" =>
           /\ pc = "done"
           /\ last_error.kind = "status"
           /\ outcome.status \in 400..499
           /\ outcome.detail \in {"body", "(response body unavailable)"}
           /\ Len(sleeps) = attempt_number
           /\ invocations = attempt_number + 1
           /\ Last(requests).attempt = attempt_number

C3_Witness ==
    /\ outcome.kind = "StreamLogError"
    /\ outcome.status = 404
    /\ attempt_number = 0
    /\ total_attempts = 3
    /\ invocations = 1
    /\ sleeps = <<>>
    /\ Len(requests) = 1

(* C4: once the producer has yielded its terminal event and is resumed, it  *)
(* is exhausted and the call ends normally in that very step: no backoff    *)
(* sleep, no connection, no further invocation, and neither                 *)
(* TooManyRetriesError nor TimeoutError, whatever happened before.          *)
C4_NormalCompletion ==
    [][pc = "yield_terminal" =>
          /\ pc' = "done"
          /\ outcome'.kind = "returned"
          /\ sleeps' = sleeps
          /\ requests' = requests
          /\ invocations' = invocations
          /\ attempt_number' = attempt_number]_vars

C4_Witness ==
    /\ outcome.kind = "returned"
    /\ attempt_number = 2
    /\ total_attempts = 3
    /\ now > TimeoutTicks

(* C5: the delivered sequence holds at most one complete/failed event, as   *)
(* its last element; once it is delivered the generator only returns: no    *)
(* connection, no reconnect or backoff sleep, no further attempt, no event. *)
C5_TerminalEndsStream ==
    /\ [](/\ \A i \in 1..Len(delivered) :
                IsTerminal(delivered[i].event) => i = Len(delivered)
          /\ (Len(delivered) > 0 /\ IsTerminal(Last(delivered).event))
                => /\ pc \in {"yield_terminal", "done"}
                   /\ pc = "done" => outcome.kind = "returned")
    /\ [][(Len(delivered) > 0 /\ IsTerminal(Last(delivered).event))
             => /\ delivered' = delivered
                /\ requests' = requests
                /\ sleeps' = sleeps
                /\ now' = now
                /\ invocations' = invocations
                /\ attempt_number' = attempt_number]_vars

C5_Witness ==
    /\ pc = "done"
    /\ Len(delivered) = 1
    /\ IsTerminal(delivered[1].event)
    /\ Len(log) = 2
    /\ attempt_number = 0
    /\ total_attempts = 3

(* C6: the end of the response without a terminal or timeout event is a     *)
(* transient failure of the attempt, answered by the backoff; a call        *)
(* returns normally only after delivering complete or failed as its last    *)
(* event.                                                                   *)
C6_ClosedIsTransient ==
    /\ last_error.kind = "closed" => (pc = "backoff" /\ outcome.kind = Running)
    /\ pc = "backoff" => last_error.kind \in {"closed", "network", "status"}
    /\ outcome.kind = "returned"
         => (Len(delivered) > 0 /\ IsTerminal(Last(delivered).event))
    /\ (pc = "done" /\ Len(sent) > 0 /\ Last(sent).attempt = attempt_number
        /\ ~IsTerminal(Last(sent).line)) => outcome.kind # "returned"

C6_Witness ==
    /\ last_error.kind = "closed"
    /\ pc = "backoff"
    /\ Len(delivered) = 1
    /\ delivered[1].event.type = "message"

FirstOfAttempt(i) == i = 1 \/ requests[i - 1].attempt < requests[i].attempt

(* C7: after an attempt failed with the cursor set, the first connection of *)
(* the next attempt carries that cursor as its last_id parameter.           *)
C7_CursorSurvivesRetry ==
    (/\ Len(requests) > 0
     /\ Last(requests).attempt = attempt_number
     /\ attempt_number > 0
     /\ FirstOfAttempt(Len(requests))
     /\ prev_cursor # NoId)
        => Last(requests).last_id = prev_cursor

HasId(line) == ~line.blank /\ _parse_log_line(line) # None /\ line.id # NoId

C9_NoDuplicateDelivery ==
    \A i, j \in 1..Len(delivered) :
        (i < j /\ delivered[i].event.id # NoId)
            => delivered[i].event.id # delivered[j].event.id

(* C10: a timeout event is never delivered; it ends the connection, and     *)
(* after a wait of 500 ms and nothing else (no backoff sleep, no attempt    *)
(* consumed) exactly one new connection is opened.  Timeout, message,       *)
(* complete yields the message and the complete event over two connections  *)
(* of one attempt.                                                          *)
C10_TimeoutReconnects ==
    /\ [](\A i \in 1..Len(delivered) :
             delivered[i].event.type \in {"message", "complete", "failed"})
    /\ [][(rotations' # rotations)
             => (pc' = "reconnect" /\ delivered' = delivered)]_vars
    /\ [][pc = "reconnect"
             => /\ pc' = "connect"
                /\ now' = Min(now + 1, ClockCap)
                /\ sleeps' = sleeps
                /\ requests' = requests
                /\ invocations' = invocations
                /\ attempt_number' = attempt_number]_vars
    /\ [][pc' = "reconnect" => rotations' = rotations + 1]_vars
    /\ []((attempt_number = 0 /\ outcome.kind = "returned")
             => (Len(requests) = rotations + 1 /\ sleeps = <<>> /\ invocations = 1))
    /\ []((/\ outcome.kind = "returned"
           /\ Len(sent) = 3
           /\ sent[1] = [attempt |-> 0, line |-> TimeoutLine]
           /\ sent[2] = [attempt |-> 0, line |-> Line("message", "hi", NoId)]
           /\ sent[3].attempt = 0
           /\ sent[3].line.type = "complete")
             => /\ Len(delivered) = 2
                /\ delivered[1].event = [type |-> "message", message |-> "hi", id |-> NoId]
                /\ delivered[2].event.type = "complete"
                /\ Len(requests) = 2
                /\ requests[2].attempt = 0)

C10_Witness ==
    /\ outcome.kind = "returned"
    /\ Len(sent) = 3
    /\ sent[1] = [attempt |-> 0, line |-> TimeoutLine]
    /\ sent[2] = [attempt |-> 0, line |-> Line("message", "hi", NoId)]
    /\ sent[3].line.type = "complete"
    /\ Len(delivered) = 2
    /\ Len(requests) = 2
    /\ now = 1

(* C11: backoff sleeps happen only between attempts: a call allowed N      *)
(* attempts performs at most N - 1 sleeps, and none after its final attempt *)
(* has failed, so a call that ran out of attempts slept fewer times than it *)
(* invoked the producer.                                                    *)
C11_SleepOnlyBetweenAttempts ==
    /\ Len(sleeps) <= total_attempts - 1
    /\ (outcome.kind = "TooManyRetriesError" => Len(sleeps) < invocations)

(* C12: at the head of every attempt the time elapsed since the start of   *)
(* the whole call is compared with the budget: when it exceeds the budget  *)
(* TimeoutError is raised and the producer is not invoked, otherwise the   *)
(* producer is invoked.  TimeoutError has no other origin.                 *)
C12_TimeoutAtAttemptStart ==
    /\ [](outcome.kind = "TimeoutError" =>
            /\ now > TimeoutTicks
            /\ attempt_number < total_attempts
            /\ invocations = attempt_number)
    /\ [][(pc = "loop" /\ attempt_number < total_attempts) =>
            IF now > TimeoutTicks
            THEN outcome'.kind = "TimeoutError" /\ invocations' = invocations
            ELSE invocations' = invocations + 1 /\ outcome' = outcome]_vars

(* the budget was not used up by any single attempt: two attempts and the  *)
(* sleep between them add up to more than the budget *)
C12_Witness ==
    /\ outcome.kind = "TimeoutError"
    /\ attempt_number = 1
    /\ invocations = 1
    /\ sleeps = <<[attempt |-> 0, seconds |-> 1]>>
    /\ total_attempts > 1

(* C13 as stated: once the elapsed time exceeds the budget no new HTTP     *)
(* connection is opened, neither by a new attempt nor by a reconnect after  *)
(* a timeout event.                                                         *)
C13_NoConnectionAfterBudget ==
    [][now > TimeoutTicks => requests' = requests]_vars

(* C13 amended: the budget is looked at only at the head of a driver        *)
(* attempt.  Past the budget no producer is invoked any more, but a        *)
(* reconnect after a timeout event inside the running attempt still opens   *)
(* its connection; every connection opened past the budget is such a        *)
(* reconnect, never the first connection of an attempt.                     *)
C13_BudgetOnlyAtAttemptStart ==
    /\ [][now > TimeoutTicks => invocations' = invocations]_vars
    /\ [][(now > TimeoutTicks /\ requests' # requests) =>
            /\ lastLine = TimeoutLine
            /\ attempt_number' = attempt_number
            /\ requests # <<>>
            /\ Last(requests).attempt = attempt_number]_vars

(* a reconnect opened its connection after the budget had run out *)
C13_Witness ==
    /\ now > TimeoutTicks
    /\ pc = "read"
    /\ Len(requests) = 2
    /\ requests[2].attempt = requests[1].attempt
    /\ sent # <<>>
    /\ Last(sent).line = TimeoutLine

(* a line the caller is never to see: blank, undecodable, heartbeat or timeout *)
NotDeliverable(line) ==
    \/ line.blank
    \/ _parse_log_line(line) = None
    \/ _parse_log_line(line).type \in {"heartbeat", "timeout"}

(* C15: every delivered event is a message, complete or failed event.  A    *)
(* heartbeat, a timeout event, a blank line or an undecodable line is never *)
(* delivered, and processing one neither ends the call nor hands anything  *)
(* to the caller: the attempt goes on reading or reconnects.  A call that   *)
(* returned normally has delivered a complete or failed event last.         *)
C15_OnlyEventsDelivered ==
    /\ [](\A i \in 1..Len(delivered) :
            delivered[i].event.type \in {"message", "complete", "failed"})
    /\ [](outcome.kind = "returned" =>
            delivered # <<>> /\ IsTerminal(Last(delivered).event))
    /\ [][(/\ pc = "read"
            /\ (lastLine' # lastLine \/ sent' # sent)
            /\ NotDeliverable(lastLine')) =>
                /\ delivered' = delivered
                /\ outcome' = outcome
                /\ pc' = IF lastLine'.type = "timeout" /\ ~lastLine'.blank
                               /\ _parse_log_line(lastLine') # None
                         THEN "reconnect" ELSE "read"]_vars

(* an attempt saw a heartbeat, a timeout event and an undecodable line and  *)
(* nothing else; its connection then closed, which counts as a failure     *)
C15_Witness ==
    /\ last_error.kind = "closed"
    /\ attempt_number = 0
    /\ delivered = <<>>
    /\ lastLine \in NoiseLines
    /\ Len(sent) = 2
    /\ sent[1].line.type = "heartbeat"
    /\ sent[2].line = TimeoutLine

(* ---------------- the backoff policy over many attempts ---------------- *)
(* attempts(total_attempts, timeout) takes any number of attempts; here    *)
(* every connection of every attempt fails with a transient error, so that *)
(* _backoff() runs for attempt_number 0 .. MaxTotalAttempts - 1            *)
BackoffInit == Begin(1..MaxTotalAttempts, "loop", BuildCall, NoCommand, NoPair)

BackoffNext ==
    \/ Invoke
    \/ ConnectNetworkError
    \/ \E status \in {s \in ErrorStatuses : IsTransientStatus(s)} :
          ConnectStatusError(status, TRUE)
    \/ Backoff
    \/ RaiseTooManyRetries

BackoffSpec == BackoffInit /\ [][BackoffNext]_vars

(* C17: the sleep after the failure of attempt n is min(2^n, 30) seconds:  *)
(* 1, 2, 4, 8, 16 for n = 0..4 and 30 for every n >= 5, whatever the       *)
(* failure was and whatever happened before.                               *)
C17_BackoffDelay ==
    \A i \in 1..Len(sleeps) :
        LET n == sleeps[i].attempt
        IN  /\ n = i - 1
            /\ sleeps[i].seconds = IF n <= 4 THEN <<1, 2, 4, 8, 16>>[n + 1] ELSE 30
            /\ (2 ^ n <= 30 => sleeps[i].seconds = 2 ^ n)
            /\ (2 ^ n > 30 => sleeps[i].seconds = 30)

(* the cap was applied: attempts 5 and 6 both slept 30 seconds *)
C17_Witness ==
    /\ Len(sleeps) = 7
    /\ sleeps[5].seconds = 16
    /\ sleeps[6].seconds = 30
    /\ sleeps[7] = [attempt |-> 6, seconds |-> 30]

(* ---------------------- the line parser on its own -------------------- *)
(* every line _parse_log_line can be handed: any "type", with or without a *)
(* "message" and an "id", blank text and text that is not JSON             *)
Texts == {"hi", "x", ""}
WireTypes == {Absent, "bogus", "message", "complete", "failed", "timeout", "heartbeat"}
WireLines ==
    { Line(t, m, i) : t \in WireTypes, m \in Texts \cup {Absent, NotAString},
                      i \in Ids \cup {NoId} }
    \cup { Line(t, m, BadId) : t \in {"message", "complete"}, m \in {"x"} }
    \cup {BlankLine, NotJsonLine}

ParserInit == Begin({STREAM_LOGS_MAX_RETRIES}, "parse", BuildCall, NoCommand, NoPair)

(* log_line = self._parse_log_line(line) *)
ParseLine(line) ==
    /\ pc = "parse"
    /\ lastLine' = line
    /\ parsed' = _parse_log_line(line)
    /\ UNCHANGED <<log, total_attempts, pc, attempt_number, last_id, pos,
                   delivered, requests, sleeps, now, invocations, rotations,
                   sent, last_error, prev_cursor, call, outcome, streams, cli, pair>>

ParserNext == \E line \in WireLines : ParseLine(line)

ParserSpec == ParserInit /\ [][ParserNext]_vars

(* C18: _parse_log_line decodes a message line with a string message to a   *)
(* message event with that text and the line's id (if any); a complete,     *)
(* failed, timeout or heartbeat line to that variant with the line's id; a  *)
(* line without a type or with an unknown type, a message line without a    *)
(* message, and text that is not JSON give None.  No exception leaves it.   *)
C18_ParserCases ==
    (pc = "parse" /\ lastLine # NoLine) =>
        /\ outcome.kind = Running
        /\ (lastLine.json /\ lastLine.type = "message" /\ lastLine.message \in Texts
                /\ lastLine.id # BadId) =>
             parsed = [type |-> "message", message |-> lastLine.message, id |-> lastLine.id]
        /\ (lastLine.json /\ lastLine.id # BadId
                /\ lastLine.type \in {"complete", "failed", "timeout", "heartbeat"}) =>
             parsed = [type |-> lastLine.type, message |-> Absent, id |-> lastLine.id]
        /\ (\/ ~lastLine.json
            \/ lastLine.type \in {Absent, "bogus"}
            \/ lastLine.type = "message" /\ lastLine.message = Absent) =>
             parsed = None

(* a message line without its message field was parsed *)
C18_Witness ==
    /\ pc = "parse"
    /\ lastLine = Line("message", Absent, 1)
    /\ parsed = None

(* ----------------------- APIClient.stream_app_logs --------------------- *)
(* client.stream_app_logs(app_id, tail, since, follow) *)
AppCalls ==
    { [func |-> "stream_app_logs", app_id |-> "app", tail |-> 100,
       since |-> "5m", follow |-> f] : f \in BOOLEAN }

(* A raw line of the app-log response.  kind "entry" is an object with the *)
(* three AppLogEntry fields, "missing" an object that lacks one of them,   *)
(* "nonobject" JSON text that is no object (a list, a number, a string,    *)
(* null), "notjson" text that json.loads rejects.                          *)
AppLine(k, m) == [kind |-> k, message |-> m]
AppEntries == { AppLine("entry", m) : m \in {"a", "b"} }
AppErrorLines == { AppLine("error", m) : m \in {"boom", "see HTTP 404", Absent} }
AppLines ==
    AppEntries \cup AppErrorLines
    \cup { AppLine(k, Absent) : k \in {"blank", "notjson", "nonobject", "heartbeat", "missing"} }

(* AppLogEntry.model_validate(data) *)
AppLogEntry(line) == [timestamp |-> "t", message |-> line.message, level |-> "info"]

(* data.get("message", "Unknown error") *)
ErrorMessage(line) == IF line.message = Absent THEN "Unknown error" ELSE line.message

(* variant: the error line is raised as an httpx error, which attempt()    *)
(* swallows and retries                                                     *)
AppProcess_ErrorRetried(line) ==
    /\ lastLine' = line
    /\ streams' = IF line.kind \in {"error", "nonobject"} THEN streams - 1 ELSE streams
    /\ delivered' = IF line.kind = "entry"
                    THEN Append(delivered, [attempt |-> attempt_number,
                                            event |-> AppLogEntry(line)])
                    ELSE delivered
    /\ IF line.kind = "error"
       THEN /\ pc' = "backoff"
            /\ last_error' = [kind |-> "network", status |-> 0]
            /\ UNCHANGED outcome
       ELSE IF line.kind = "nonobject"
       THEN /\ pc' = "done"
            /\ outcome' = Outcome("AttributeError", 0, "-")
            /\ UNCHANGED last_error
       ELSE /\ pc' = IF line.kind = "entry" THEN "yield_message" ELSE "read"
            /\ UNCHANGED <<outcome, last_error, streams, cli, pair>>

(* body of "for line in response.iter_lines()" for one received line:      *)
(* blank and undecodable lines and heartbeats are skipped; data.get on     *)
(* decoded JSON that is no dict raises AttributeError, which nothing       *)
(* catches; an error line raises StreamLogError, which attempt() does not  *)
(* catch; a dict that fails validation is skipped; an entry is yielded     *)
AppProcess(line) ==
    /\ lastLine' = line
    /\ streams' = IF line.kind \in {"error", "nonobject"} THEN streams - 1 ELSE streams
    /\ delivered' = IF line.kind = "entry"
                    THEN Append(delivered, [attempt |-> attempt_number,
                                            event |-> AppLogEntry(line)])
                    ELSE delivered
    /\ IF line.kind = "error"
       THEN /\ pc' = "done"
            /\ outcome' = Outcome("StreamLogError", 0, ErrorMessage(line))
            /\ UNCHANGED last_error
       ELSE IF line.kind = "nonobject"
       THEN /\ pc' = "done"
            /\ outcome' = Outcome("AttributeError", 0, "-")
            /\ UNCHANGED last_error
       ELSE /\ pc' = IF line.kind = "entry" THEN "yield_message" ELSE "read"
            /\ UNCHANGED <<outcome, last_error, streams, cli, pair>>

(* the connection carries one more line *)
AppReadLine(line, d) ==
    /\ call.func = "stream_app_logs"
    /\ pc = "read"
    /\ Len(sent) < MaxAppLines
    /\ line \in AppLines
    /\ now' = Advance(now, d)
    /\ sent' = Append(sent, [attempt |-> attempt_number, line |-> line])
    /\ AppProcess(line)
    /\ UNCHANGED <<log, total_attempts, attempt_number, last_id, pos, requests,
                   sleeps, invocations, rotations, prev_cursor, call, parsed, cli, pair>>

(* variant: the end of the response is treated as in stream_build_logs: a *)
(* network error that attempt() retries                                    *)
AppReadEnd_Retry ==
    /\ call.func = "stream_app_logs"
    /\ pc = "read"
    /\ pc' = "backoff"
    /\ last_error' = [kind |-> "closed", status |-> 0]
    /\ streams' = streams - 1
    /\ UNCHANGED <<log, total_attempts, attempt_number, last_id, pos, lastLine,
                   delivered, requests, sleeps, now, invocations, rotations,
                   sent, outcome, prev_cursor, call, parsed, cli, pair>>

(* the response ends: the for loop and the generator finish, "yield from"  *)
(* returns and the wrapper returns                                         *)
AppReadEnd ==
    /\ call.func = "stream_app_logs"
    /\ pc = "read"
    /\ pc' = "done"
    /\ outcome' = Outcome("returned", 0, "-")
    /\ streams' = streams - 1
    /\ UNCHANGED <<log, total_attempts, attempt_number, last_id, pos, lastLine,
                   delivered, requests, sleeps, now, invocations, rotations,
                   sent, last_error, prev_cursor, call, parsed, cli, pair>>

AppInit == \E c \in AppCalls : Begin(1..STREAM_LOGS_MAX_RETRIES, "loop", c, NoCommand, NoPair)

AppNext ==
    \/ RaiseTimeout
    \/ Invoke
    \/ RaiseTooManyRetries
    \/ Backoff
    \/ ConnectOk
    \/ ConnectNetworkError
    \/ \E status \in ErrorStatuses, readable \in BOOLEAN :
          ConnectStatusError(status, readable)
    \/ \E line \in AppLines, d \in Delays : AppReadLine(line, d)
    \/ AppReadEnd
    \/ \E d \in Delays : ReadError(d)
    \/ ResumeAfterMessage

AppSpec == AppInit /\ [][AppNext]_vars

(* the step that received one more app-log line *)
AppReceived == pc = "read" /\ Len(sent') = Len(sent) + 1

(* C19: a type=error line makes the call raise StreamLogError with the      *)
(* line's message ("Unknown error" when it has none).  The error is fatal:  *)
(* the line and nothing after it is delivered, no backoff sleep follows and *)
(* the driver starts no further attempt: the call is over.                  *)
C19_ErrorLineFatal ==
    /\ [][(AppReceived /\ Last(sent').line.kind = "error") =>
            /\ outcome' = Outcome("StreamLogError", 0,
                                  IF Last(sent').line.message = Absent
                                  THEN "Unknown error"
                                  ELSE Last(sent').line.message)
            /\ pc' = "done"
            /\ delivered' = delivered
            /\ sleeps' = sleeps
            /\ invocations' = invocations]_vars
    /\ [][pc # "done"]_vars
    /\ []((sent # <<>> /\ Last(sent).line.kind = "error") =>
            /\ outcome.kind = "StreamLogError"
            /\ Len(sleeps) = attempt_number
            /\ invocations = attempt_number + 1)

(* an error line without a message arrived on the second attempt, after an  *)
(* entry had been delivered on the first                                    *)
C19_Witness ==
    /\ outcome = Outcome("StreamLogError", 0, "Unknown error")
    /\ attempt_number = 1
    /\ Len(sleeps) = 1
    /\ Len(delivered) = 1
    /\ Len(sent) = 2
    /\ sent[2] = [attempt |-> 1, line |-> AppLine("error", Absent)]

(* C20: a received line that is no type=error line (blank, not JSON, JSON   *)
(* that is no object, heartbeat, object without the AppLogEntry fields, or  *)
(* a valid entry) is either delivered as an AppLogEntry or skipped, and the *)
(* stream goes on with the next line: the call never raises because of it.  *)
C20_MalformedLineSkipped ==
    [][(AppReceived /\ Last(sent').line.kind # "error") =>
        /\ outcome' = outcome
        /\ IF Last(sent').line.kind = "entry"
           THEN /\ pc' = "yield_message"
                /\ delivered' = Append(delivered,
                       [attempt |-> attempt_number, event |-> AppLogEntry(Last(sent').line)])
           ELSE /\ pc' = "read"
                /\ delivered' = delivered]_vars

(* ------------------- either streaming function called ----------------- *)
BothInit == Init \/ AppInit

BothNext ==
    \/ call.func = "stream_build_logs" /\ Next
    \/ call.func = "stream_app_logs" /\ AppNext

BothSpec == BothInit /\ [][BothNext]_vars

(* the received line is one the function hands to the caller *)
Deliverable(e) ==
    IF call.func = "stream_build_logs"
    THEN ~NotDeliverable(e.line)
    ELSE e.line.kind = "entry"

(* C16: for stream_build_logs and for stream_app_logs, the events delivered *)
(* in an attempt are exactly the deliverable lines received in that         *)
(* attempt, decoded, in the order of receipt: none missing, none twice,     *)
(* none out of order.                                                       *)
C16_DeliveredInOrder ==
    LET got == SelectSeq(sent, Deliverable)
    IN  delivered =
          [i \in 1..Len(got) |->
             [attempt |-> got[i].attempt,
              event |-> IF call.func = "stream_build_logs"
                        THEN _parse_log_line(got[i].line)
                        ELSE AppLogEntry(got[i].line)]]

(* one app-log attempt received entry b, a heartbeat and entry a, and the   *)
(* caller got b and then a                                                  *)
C16_Witness ==
    /\ call.func = "stream_app_logs"
    /\ Len(sent) = 3
    /\ sent[1] = [attempt |-> 0, line |-> AppLine("entry", "b")]
    /\ sent[2].line.kind = "heartbeat"
    /\ sent[3] = [attempt |-> 0, line |-> AppLine("entry", "a")]
    /\ Len(delivered) = 2
    /\ delivered[1].event.message = "b"
    /\ delivered[2].event.message = "a"

(* --------------------- termination of stream_build_logs ---------------- *)
(* The while True loop of stream_build_logs puts no limit on the number of *)
(* timeout events it follows.  The histories record MaxRotations of them;  *)
(* Rotate is every further round of the loop in one step, for a build that *)
(* makes no progress: the connection has carried no event, after a long    *)
(* wait it ends with a timeout event, the client sleeps half a second and  *)
(* its next connection, with the same last_id, is accepted.                *)
Rotate ==
    /\ pc = "read"
    /\ rotations = MaxRotations
    /\ pos = ResumePos(log, Params(last_id))
    /\ lastLine' = TimeoutLine
    /\ now' = Advance(now, LongWait + RECONNECT_HALF_SECONDS)
    /\ UNCHANGED <<log, total_attempts, pc, attempt_number, last_id, pos,
                   delivered, requests, sleeps, invocations, rotations, sent,
                   last_error, prev_cursor, call, parsed, outcome, streams, cli, pair>>

LiveNext == Next \/ Rotate

(* the steps of the client itself; the caller keeps asking for the next    *)
(* item, and a connection attempt always comes back with some answer       *)
ClientStep ==
    \/ RaiseTimeout
    \/ Invoke
    \/ RaiseTooManyRetries
    \/ Backoff
    \/ ConnectOk
    \/ ConnectNetworkError
    \/ \E status \in ErrorStatuses, readable \in BOOLEAN : ConnectStatusError(status, readable)
    \/ ResumeAfterMessage
    \/ ReturnAfterTerminal
    \/ ReconnectSleep

(* an open connection ends: it closes, fails, or carries a timeout,        *)
(* complete or failed event                                                *)
ConnectionEnds ==
    \/ ReadClosed
    \/ \E d \in Delays : ReadError(d)
    \/ ReadTimeoutMarker
    \/ Rotate
    \/ \E d \in Delays : ReadEvent(d) /\ pc' = "yield_terminal"

LiveInit == Begin(1..MaxLiveAttempts, "loop", BuildCall, NoCommand, NoPair)

LiveSpec ==
    /\ LiveInit
    /\ [][LiveNext]_vars
    /\ WF_vars(ClientStep)
    /\ WF_vars(ConnectionEnds)

(* the call is over in one of the ways the interface names *)
Terminated ==
    /\ pc = "done"
    /\ outcome.kind \in {"returned", "StreamLogError", "TooManyRetriesError", "TimeoutError"}
    /\ outcome.kind = "returned" => (delivered # <<>> /\ IsTerminal(Last(delivered).event))

(* C14 as stated: if every opened connection eventually ends (by closing,  *)
(* failing, or a timeout, complete or failed event), the call eventually   *)
(* terminates: normally after a terminal event, or with StreamLogError,    *)
(* TooManyRetriesError or TimeoutError.                                    *)
C14_Terminates == <>Terminated

(* C14 amended: the same, provided in addition that only finitely many     *)
(* connections end with a timeout event.                                   *)
C14_TerminatesUnlessRotating == <>[][~Rotate]_vars => <>Terminated

(* a call whose first connection ended with a timeout event terminated     *)
(* after all its attempts had failed                                       *)
C14_Witness ==
    /\ outcome.kind = "TooManyRetriesError"
    /\ rotations = MaxRotations
    /\ sent # <<>>
    /\ sent[1] = [attempt |-> 0, line |-> TimeoutLine]
    /\ total_attempts = MaxLiveAttempts

(* C21: whatever network failures, status errors and malformed lines the   *)
(* server produces, a call of stream_build_logs or stream_app_logs ends    *)
(* normally or with StreamLogError, TooManyRetriesError or TimeoutError    *)
(* and with nothing else; a transient failure (network error, status >=    *)
(* 500) is never what the caller sees: it shows only as                    *)
(* TooManyRetriesError once every attempt has been used.                   *)
C21_OnlyDeclaredErrors ==
    /\ outcome.kind \in {Running, "returned", "StreamLogError",
                          "TooManyRetriesError", "TimeoutError"}
    /\ (outcome.kind = "StreamLogError" => outcome.status < 500)
    /\ (outcome.kind = "TooManyRetriesError" => attempt_number = total_attempts)

(* ------------------------ the caller stops iterating ------------------- *)
(* The caller drops the generator while it is suspended at a yield: close() *)
(* raises GeneratorExit there, which leaves the with block of self.stream   *)
(* (the stream is released), passes attempt() (it catches only httpx        *)
(* errors) and ends wrapper.                                                *)
Abandon ==
    /\ pc \in {"yield_message", "yield_terminal"}
    /\ streams' = streams - 1
    /\ pc' = "done"
    /\ outcome' = Outcome("abandoned", 0, "-")
    /\ UNCHANGED <<log, total_attempts, attempt_number, last_id, pos, lastLine,
                   delivered, requests, sleeps, now, invocations, rotations,
                   sent, last_error, prev_cursor, call, parsed, cli, pair>>

AbandonNext == BothNext \/ Abandon

AbandonSpec == BothInit /\ [][AbandonNext]_vars

(* C22: a call of stream_build_logs or stream_app_logs holds at most one    *)
(* open HTTP stream at any moment.  It holds none while it waits to         *)
(* reconnect or backs off, none between attempts, and none once it is over, *)
(* however it ended: by returning, by raising, or because the caller        *)
(* abandoned it at a yield.                                                 *)
C22_OneStreamReleased ==
    /\ [](streams \in {0, 1})
    /\ [](pc \in {"loop", "connect", "reconnect", "backoff", "done"} => streams = 0)
    /\ [](pc \in {"read", "yield_message", "yield_terminal"} => streams = 1)
    /\ [][(now' # now /\ pc \in {"reconnect", "backoff"}) => streams = 0]_vars

(* the caller abandoned a build-log call at a message that the second       *)
(* connection of the attempt had delivered                                  *)
C22_Witness ==
    /\ outcome.kind = "abandoned"
    /\ streams = 0
    /\ call.func = "stream_build_logs"
    /\ Len(requests) = 2
    /\ rotations = 1
    /\ Len(delivered) = 1
    /\ delivered[1].event.type = "message"
    /\ sent[1].line = TimeoutLine

(* --------------------- two calls on one APIClient ---------------------- *)
(* Two generators made by stream_build_logs on the same client, advanced   *)
(* in any interleaving.  A frame holds the locals of one call: start and   *)
(* attempt_number of wrapper, last_id of stream_build_logs, and what the   *)
(* call has requested, received and delivered.  The client (self) holds    *)
(* the connection pool, the one thing both calls change.  The clock is the *)
(* monotonic clock, in ticks.                                              *)
PairCalls == {1, 2}
NewFrame ==
    [pc |-> "new", start |-> 0, attempt_number |-> 0, last_id |-> NoId,
     requested |-> <<>>, received |-> <<>>, delivered |-> <<>>,
     slept |-> <<>>, outcome |-> Running]
TwoCalls == [frames |-> <<NewFrame, NewFrame>>, pool |-> 0, clock |-> 0, actor |-> 0]

PairLines ==
    {Line("message", "hi", 1), Line("heartbeat", Absent, 2), TimeoutLine,
     Line("complete", Absent, NoId)}

(* variant: last_id is kept in one place for all calls (an attribute of    *)
(* the client instead of a local)                                          *)
CursorOf_OnClient(p, c) == p.frames[1].last_id

(* last_id as stream_build_logs of call c reads it: its own local *)
CursorOf(p, c) == p.frames[c].last_id

(* call c takes a step that leaves its frame as f *)
PairStep(c, f, pool, clock) ==
    /\ pair' = [frames |-> [pair.frames EXCEPT ![c] = f], pool |-> pool,
                clock |-> clock, actor |-> c]
    /\ UNCHANGED <<log, total_attempts, pc, attempt_number, last_id, pos, lastLine,
                   delivered, requests, sleeps, now, invocations, rotations,
                   sent, last_error, prev_cursor, call, parsed, streams, cli,
                   outcome>>

(* start = time.monotonic() *)
PStart(c) ==
    LET f == pair.frames[c]
    IN  /\ f.pc = "new"
        /\ PairStep(c, [f EXCEPT !.pc = "loop", !.start = pair.clock],
                    pair.pool, pair.clock)

(* head of the for loop: exhausted, over the budget, or func is called and *)
(* its body starts with last_id = None                                     *)
PLoop(c) ==
    LET f == pair.frames[c]
    IN  /\ f.pc = "loop"
        /\ PairStep(c,
             IF f.attempt_number >= total_attempts
             THEN [f EXCEPT !.pc = "done", !.outcome = "TooManyRetriesError"]
             ELSE IF pair.clock - f.start > TimeoutTicks
             THEN [f EXCEPT !.pc = "done", !.outcome = "TimeoutError"]
             ELSE [f EXCEPT !.pc = "connect", !.last_id = NoId],
             pair.pool, pair.clock)

(* self.stream(..., params=params) is accepted *)
PConnect(c) ==
    LET f == pair.frames[c]
    IN  /\ f.pc = "connect"
        /\ PairStep(c,
             [f EXCEPT !.pc = "read",
                       !.requested = Append(@, [attempt |-> f.attempt_number,
                                                last_id |-> Params(CursorOf(pair, c)),
                                                at |-> Len(f.received)])],
             pair.pool + 1, pair.clock)

(* the connection carries a line: the loop body of stream_build_logs; the  *)
(* caller takes a yielded message and asks for the next item               *)
PRead(c, line) ==
    LET f == pair.frames[c]
        log_line == _parse_log_line(line)
        g == [f EXCEPT !.received = Append(@, [attempt |-> f.attempt_number, line |-> line]),
                       !.last_id = IF Truthy(log_line.id) THEN log_line.id ELSE @,
                       !.delivered = IF log_line.type \in {"message", "complete", "failed"}
                                     THEN Append(@, log_line) ELSE @]
    IN  /\ f.pc = "read"
        /\ Len(f.received) < MaxPairLines
        /\ line \in PairLines
        /\ IF log_line.type \in {"complete", "failed"}
           THEN PairStep(c, [g EXCEPT !.pc = "done", !.outcome = "returned"],
                         pair.pool - 1, pair.clock)
           ELSE IF log_line.type = "timeout"
           THEN PairStep(c, [g EXCEPT !.pc = "connect"], pair.pool - 1,
                         Min(pair.clock + RECONNECT_HALF_SECONDS, 2 * ClockCap))
           ELSE PairStep(c, g, pair.pool, pair.clock)

(* the connection fails or closes after d ticks (or is refused): attempt() *)
(* swallows the error and sleeps, the for loop takes the next index        *)
PFail(c, d) ==
    LET f == pair.frames[c]
    IN  /\ f.pc \in {"connect", "read"}
        /\ PairStep(c,
             [f EXCEPT !.pc = "loop", !.attempt_number = @ + 1,
                       !.slept = Append(@, backoff_seconds(f.attempt_number))],
             IF f.pc = "read" THEN pair.pool - 1 ELSE pair.pool,
             Min(pair.clock + d + backoff_seconds(f.attempt_number) * TicksPerSecond,
                 2 * ClockCap))

PairInit == Begin(1..MaxPairAttempts, "pair", BuildCall, NoCommand, TwoCalls)

PairNext ==
    \E c \in PairCalls :
        \/ PStart(c)
        \/ PLoop(c)
        \/ PConnect(c)
        \/ \E line \in PairLines : PRead(c, line)
        \/ \E d \in Delays : PFail(c, d)

PairSpec == PairInit /\ [][PairNext]_vars

(* id of the last id-bearing line among the first n lines that the call of *)
(* frame f received in attempt a; NoId if there is none                     *)
LatestOwnId(f, a, n) ==
    LET idx == {k \in 1..n : f.received[k].attempt = a
                              /\ _parse_log_line(f.received[k].line).id # NoId}
    IN  IF idx = {} THEN NoId
        ELSE f.received[CHOOSE k \in idx : \A j \in idx : j <= k].line.id

(* the lines of frame f that are handed to the caller, decoded *)
OwnDeliverables(f) ==
    LET got == SelectSeq(f.received, LAMBDA e : ~NotDeliverable(e.line))
    IN  [i \in 1..Len(got) |-> _parse_log_line(got[i].line)]

(* C23: of two interleaved calls, a step of one leaves the other's cursor,  *)
(* attempt index, start time, requests and delivered events untouched; the  *)
(* resume-after value of every connection of a call is determined by the    *)
(* lines that call itself received in the attempt, its attempt index by its *)
(* own failures, its delivered events by its own received lines.            *)
C23_CallsIndependent ==
    /\ [][\A c \in PairCalls :
            pair'.actor # c => pair'.frames[c] = pair.frames[c]]_vars
    /\ [](\A c \in PairCalls :
            LET f == pair.frames[c]
            IN  /\ \A i \in 1..Len(f.requested) :
                       f.requested[i].last_id =
                           LatestOwnId(f, f.requested[i].attempt, f.requested[i].at)
                /\ f.attempt_number = Len(f.slept)
                /\ f.delivered = OwnDeliverables(f)
                /\ f.start <= pair.clock)

(* call 1 has failed once and is at id 1 in its second attempt; call 2,     *)
(* started later, is still in its first attempt and has reconnected with    *)
(* its own cursor 2                                                         *)
C23_Witness ==
    LET f1 == pair.frames[1]
        f2 == pair.frames[2]
    IN  /\ f1.attempt_number = 1
        /\ f1.last_id = 1
        /\ f2.attempt_number = 0
        /\ f2.start > f1.start
        /\ Len(f2.requested) = 2
        /\ f2.requested[2].last_id = 2
        /\ f2.delivered = <<>>
        /\ Len(f1.delivered) = 1

(* C24: every attempt of stream_app_logs opens exactly one HTTP stream and *)
(* never reconnects inside the attempt; the clean end of the response ends  *)
(* the whole call normally; every attempt sends the tail, since and follow  *)
(* of the call (and the timeout chosen from follow), so all requests of a   *)
(* call are alike.                                                          *)
C24_AppOneStreamPerAttempt ==
    /\ [](\A i, j \in 1..Len(requests) :
            i # j => requests[i].attempt # requests[j].attempt)
    /\ [](\A i \in 1..Len(requests) :
            requests[i] = [attempt |-> requests[i].attempt, tail |-> call.tail,
                           since |-> call.since, follow |-> call.follow,
                           timeout |-> IF call.follow THEN 120 ELSE 30])
    /\ [](Len(requests) <= invocations /\ pc # "reconnect")
    /\ [](last_error.kind # "closed")
    /\ [][(pc = "read" /\ streams' = 0 /\ sent' = sent /\ last_error' = last_error) =>
            (pc' = "done" /\ outcome'.kind = "returned" /\ sleeps' = sleeps)]_vars

(* the first attempt delivered an entry and failed; the second attempt sent *)
(* the same request and its response ended cleanly                          *)
C24_Witness ==
    /\ outcome.kind = "returned"
    /\ call.follow
    /\ attempt_number = 1
    /\ Len(requests) = 2
    /\ requests[2].since = requests[1].since
    /\ Len(delivered) = 2
    /\ delivered[1].attempt = 0
    /\ delivered[2].attempt = 1

(* ------------------- deploy(): the upload and its cancel --------------- *)
(* The try block of deploy() around _upload_deployment.  at is the place   *)
(* in the block: two progress.log calls, the three POSTs of                *)
(* _upload_deployment, the last progress.log.  cancelled lists the         *)
(* deployments for which POST .../upload-cancelled was sent, raised is     *)
(* what leaves the try statement.                                          *)
UploadSteps == <<"log_created", "log_uploading", "post_upload", "post_archive",
                 "post_upload_complete", "log_uploaded">>
UploadPosts == {"post_upload", "post_archive", "post_upload_complete"}
(* what a POST comes back with: status 200, no response at all (a network *)
(* error), or an error status                                              *)
HttpOk == 200
NoResponse == 0
NotSent == 0 - 1
HttpResults == {HttpOk, NoResponse} \cup ErrorStatuses

(* RequestUploadResponse.url of the answer to POST .../upload *)
UploadUrls == {"u1", "u2"}
NoUrl == "-"

DeployCommand(d) ==
    [name |-> "deploy", deployment |-> d, at |-> 1, pc |-> "try",
     interrupted |-> 0, cancelled |-> <<>>, cancel_result |-> NotSent,
     raised |-> "none", posts |-> <<>>, url |-> NoUrl]

DeployUnchanged ==
    UNCHANGED <<log, total_attempts, pc, attempt_number, last_id, pos, lastLine,
                   delivered, requests, sleeps, now, invocations, rotations,
                   sent, last_error, prev_cursor, call, parsed, streams, pair,
                   outcome>>

(* variant: upload_response.raise_for_status() is missing, so an error     *)
(* status of the archive upload does not stop the function                 *)
UploadStep_ArchiveStatusIgnored(result, url) ==
    LET step == UploadSteps[cli.at]
        posted ==
            IF step \notin UploadPosts THEN cli.posts
            ELSE Append(cli.posts,
                   [to |-> IF step = "post_upload" THEN "upload"
                           ELSE IF step = "post_archive" THEN cli.url
                           ELSE "upload-complete",
                    deployment |-> IF step = "post_archive" THEN "-" ELSE cli.deployment,
                    result |-> result])
    IN  /\ cli.name = "deploy"
        /\ cli.pc = "try"
        /\ result \in HttpResults
        /\ url \in UploadUrls \cup {NoUrl}
        /\ step \notin UploadPosts => result = HttpOk
        /\ (step # "post_upload" \/ result # HttpOk) => url = NoUrl
        /\ cli' = IF result # HttpOk /\ ~(step = "post_archive" /\ result \in ErrorStatuses)
                  THEN [cli EXCEPT !.pc = "done", !.raised = "HTTPError", !.posts = posted]
                  ELSE IF step = "post_upload" /\ url = NoUrl
                  THEN [cli EXCEPT !.pc = "done", !.raised = "ValidationError",
                                   !.posts = posted]
                  ELSE IF cli.at = Len(UploadSteps)
                  THEN [cli EXCEPT !.pc = "done", !.posts = posted]
                  ELSE [cli EXCEPT !.at = @ + 1, !.posts = posted,
                                   !.url = IF step = "post_upload" THEN url ELSE @]
        /\ DeployUnchanged

(* the next statement of the try block; a POST that fails raises out of    *)
(* the block, which has no handler for it; the answer to the first POST    *)
(* of _upload_deployment is validated and gives the URL of the second,     *)
(* url = NoUrl standing for an answer that fails validation                *)
UploadStep(result, url) ==
    LET step == UploadSteps[cli.at]
        posted ==
            IF step \notin UploadPosts THEN cli.posts
            ELSE Append(cli.posts,
                   [to |-> IF step = "post_upload" THEN "upload"
                           ELSE IF step = "post_archive" THEN cli.url
                           ELSE "upload-complete",
                    deployment |-> IF step = "post_archive" THEN "-" ELSE cli.deployment,
                    result |-> result])
    IN  /\ cli.name = "deploy"
        /\ cli.pc = "try"
        /\ result \in HttpResults
        /\ url \in UploadUrls \cup {NoUrl}
        /\ step \notin UploadPosts => result = HttpOk
        /\ (step # "post_upload" \/ result # HttpOk) => url = NoUrl
        /\ cli' = IF result # HttpOk
                  THEN [cli EXCEPT !.pc = "done", !.raised = "HTTPError", !.posts = posted]
                  ELSE IF step = "post_upload" /\ url = NoUrl
                  THEN [cli EXCEPT !.pc = "done", !.raised = "ValidationError",
                                   !.posts = posted]
                  ELSE IF cli.at = Len(UploadSteps)
                  THEN [cli EXCEPT !.pc = "done", !.posts = posted]
                  ELSE [cli EXCEPT !.at = @ + 1, !.posts = posted,
                                   !.url = IF step = "post_upload" THEN url ELSE @]
        /\ DeployUnchanged

(* KeyboardInterrupt arrives while a statement of the try block runs *)
Interrupt ==
    /\ cli.name = "deploy"
    /\ cli.pc = "try"
    /\ cli' = [cli EXCEPT !.pc = "cancel", !.interrupted = cli.at]
    /\ DeployUnchanged

(* variant: _cancel_upload has no except clause: a failed notification     *)
(* replaces the interrupt                                                  *)
CancelUpload_Raises(result) ==
    /\ cli.name = "deploy"
    /\ cli.pc = "cancel"
    /\ result \in HttpResults
    /\ cli' = IF result = HttpOk
              THEN [cli EXCEPT !.pc = "reraise", !.cancel_result = result,
                               !.cancelled = Append(@, cli.deployment)]
              ELSE [cli EXCEPT !.pc = "done", !.cancel_result = result,
                               !.cancelled = Append(@, cli.deployment),
                               !.raised = "HTTPError"]
    /\ DeployUnchanged

(* _cancel_upload(deployment.id): one POST .../upload-cancelled; whatever  *)
(* Exception the POST or raise_for_status raises is caught and logged      *)
CancelUpload(result) ==
    /\ cli.name = "deploy"
    /\ cli.pc = "cancel"
    /\ result \in HttpResults
    /\ cli' = [cli EXCEPT !.pc = "reraise", !.cancel_result = result,
                          !.cancelled = Append(@, cli.deployment)]
    /\ DeployUnchanged

(* the bare raise of the except KeyboardInterrupt clause *)
Reraise ==
    /\ cli.name = "deploy"
    /\ cli.pc = "reraise"
    /\ cli' = [cli EXCEPT !.pc = "done", !.raised = "KeyboardInterrupt"]
    /\ DeployUnchanged

DeployInit ==
    \E d \in {"dep", "dep2"} :
        Begin({STREAM_LOGS_MAX_RETRIES}, "command", BuildCall, DeployCommand(d), NoPair)

DeployNext ==
    \/ \E result \in HttpResults, url \in UploadUrls \cup {NoUrl} : UploadStep(result, url)
    \/ Interrupt
    \/ \E result \in HttpResults : CancelUpload(result)
    \/ Reraise

DeploySpec == DeployInit /\ [][DeployNext]_vars

(* C25: an interrupt during the upload makes deploy() send the             *)
(* upload-cancelled notification for the deployment once; whether the      *)
(* notification succeeds, fails on the network or is answered with an      *)
(* error status, nothing of it is raised, and the interrupt itself is what *)
(* leaves deploy().  Without an interrupt no notification is sent.         *)
C25_CancelOnceThenReraise ==
    /\ []((cli.interrupted # 0 /\ cli.pc = "done") =>
            (cli.cancelled = <<cli.deployment>> /\ cli.raised = "KeyboardInterrupt"))
    /\ [](cli.interrupted # 0 => Len(cli.cancelled) <= 1)
    /\ [](cli.interrupted = 0 => cli.cancelled = <<>>)
    /\ [][cli.pc = "cancel" =>
            (cli'.pc = "reraise" /\ cli'.raised = "none"
             /\ cli'.cancelled = <<cli.deployment>>)]_vars

(* the interrupt came during the POST of the archive, the notification was *)
(* answered with status 500, and KeyboardInterrupt was raised              *)
C25_Witness ==
    /\ cli.pc = "done"
    /\ cli.interrupted = 4
    /\ UploadSteps[4] = "post_archive"
    /\ cli.cancel_result = 500
    /\ cli.cancelled = <<"dep2">>
    /\ cli.raised = "KeyboardInterrupt"

(* ------------------- the cursor of stream_build_logs -------------------- *)
(* what one connection may carry when every kind of line may have an id,   *)
(* no id or the id "": the adapter's variants all declare id: Optional[str] *)
CursorIds == Ids \cup {NoId, EmptyId}

CursorLines ==
    { Line("message", "hi", i) : i \in CursorIds }
    \cup { Line(t, Absent, i) : t \in {"heartbeat", "timeout", "complete"}, i \in CursorIds }
    \cup { Line("message", Absent, 1), Line("bogus", Absent, 2) }

(* iter_lines() hands the generator one more line of the response *)
ReadAny(line) ==
    /\ pc = "read"
    /\ Len(sent) < MaxCursorLines
    /\ sent' = Append(sent, [attempt |-> attempt_number, line |-> line])
    /\ Process(line)
    /\ UNCHANGED <<log, total_attempts, attempt_number, pos, requests, sleeps,
                   now, invocations, rotations, last_error, prev_cursor, outcome,
                   call, parsed, cli, pair>>

CursorInit == Begin(1..MaxCursorAttempts, "loop", BuildCall, NoCommand, NoPair)

CursorNext ==
    \/ Invoke
    \/ RaiseTooManyRetries
    \/ Backoff
    \/ ConnectOk
    \/ \E line \in CursorLines : ReadAny(line)
    \/ ReadClosed
    \/ ResumeAfterMessage
    \/ ReturnAfterTerminal
    \/ ReconnectSleep

CursorSpec == CursorInit /\ [][CursorNext]_vars

(* the id of the latest of the first n lines received in attempt a that    *)
(* parsed and carries a non-empty id; NoId when there is none              *)
RECURSIVE CursorAfter(_, _)
CursorAfter(a, n) ==
    IF n = 0 THEN NoId
    ELSE IF sent[n].attempt = a /\ _parse_log_line(sent[n].line) # None
            /\ sent[n].line.id \notin {NoId, EmptyId}
         THEN sent[n].line.id
         ELSE CursorAfter(a, n - 1)

(* C26: inside one invocation the cursor is the id of the most recent      *)
(* parsed line with a non-empty id, whatever its kind (message, heartbeat, *)
(* timeout, complete); a line with no id or the id "" leaves it as it was; *)
(* every request of the invocation after its first carries that cursor,    *)
(* and the first request of an invocation carries none.                    *)
C26_CursorIsLatestId ==
    /\ [](pc \in {"connect", "read", "reconnect", "yield_message", "yield_terminal", "backoff"}
            => last_id = CursorAfter(attempt_number, Len(sent)))
    /\ [][Len(requests') > Len(requests) =>
            Last(requests').last_id = CursorAfter(attempt_number, Len(sent))]_vars
    /\ [][(Len(sent') > Len(sent) /\ Last(sent').line.id \in {NoId, EmptyId})
            => last_id' = last_id]_vars

(* a heartbeat set the cursor to 1, a message with the id "" left it, a     *)
(* timeout line with id 2 moved it to 2, and the reconnect asked for 2      *)
C26_Witness ==
    /\ Len(sent) = 3
    /\ sent[1].line = Line("heartbeat", Absent, 1)
    /\ sent[2].line = Line("message", "hi", EmptyId)
    /\ sent[3].line = Line("timeout", Absent, 2)
    /\ Len(requests) = 2
    /\ requests[2].last_id = 2
    /\ pc = "read"

(* ------------------- transient and fatal failures ---------------------- *)
(* the failure of the running attempt is one attempt() retries *)
Transient ==
    \/ last_error.kind \in {"network", "closed"}
    \/ last_error.kind = "status" /\ last_error.status >= 500

(* C27: a status error of 500 or more is treated as a network error is:    *)
(* nothing is raised, the attempt goes to its backoff, and the backoff is   *)
(* one sleep of min(2^attempt_number, 30) seconds after which the next      *)
(* attempt_number is taken, whichever of the two the failure was; a status  *)
(* error below 500 never reaches the backoff and ends the call for good.    *)
C27_ServerErrorLikeNetworkError ==
    /\ [][(last_error.kind = "none" /\ last_error'.kind # "none") =>
            IF last_error'.kind = "status" /\ last_error'.status < 500
            THEN pc' = "done" /\ outcome'.kind = "StreamLogError" /\ sleeps' = sleeps
            ELSE pc' = "backoff" /\ outcome' = outcome /\ sleeps' = sleeps]_vars
    /\ [](pc = "backoff" => Transient)
    /\ [][pc = "backoff" =>
            /\ pc' = "loop"
            /\ attempt_number' = attempt_number + 1
            /\ outcome' = outcome
            /\ sleeps' = Append(sleeps,
                   [attempt |-> attempt_number,
                    seconds |-> IF 2^attempt_number < 30 THEN 2^attempt_number ELSE 30])]_vars
    /\ [][(last_error.kind = "status" /\ last_error.status < 500) =>
            (invocations' = invocations /\ sleeps' = sleeps /\ requests' = requests)]_vars

(* the second attempt was answered with status 503 and waits in its        *)
(* backoff, after the first one's sleep of one second                      *)
C27_Witness ==
    /\ pc = "backoff"
    /\ last_error = [kind |-> "status", status |-> 503]
    /\ attempt_number = 1
    /\ sleeps = <<[attempt |-> 0, seconds |-> 1]>>
    /\ outcome.kind = Running

(* ------------------ what the caller has after retries ------------------ *)
(* C28: what was delivered stays delivered: every step leaves the          *)
(* delivered sequence as it was or appends to it the event of the running   *)
(* attempt, also the step in which an attempt fails and the backoff after   *)
(* it; so the events of earlier attempts come before those of later ones.   *)
(* An event without an id can be delivered again by a later attempt.        *)
C28_DeliveredIsConcatenation ==
    /\ [][\/ delivered' = delivered
          \/ /\ Len(delivered') = Len(delivered) + 1
             /\ SubSeq(delivered', 1, Len(delivered)) = delivered
             /\ Last(delivered').attempt = attempt_number
             /\ attempt_number' = attempt_number]_vars
    /\ [][(pc \in {"backoff", "loop"} \/ last_error'.kind # last_error.kind)
            => delivered' = delivered]_vars
    /\ [](\A i, j \in 1..Len(delivered) :
            i < j => delivered[i].attempt <= delivered[j].attempt)

(* the stored log holds one message without an id; the first attempt        *)
(* delivered it and failed, the second attempt delivered it again           *)
C28_Witness ==
    /\ log = <<Line("message", "hi", NoId)>>
    /\ Len(delivered) = 2
    /\ delivered[1] = [attempt |-> 0, event |-> [type |-> "message", message |-> "hi", id |-> NoId]]
    /\ delivered[2] = [attempt |-> 1, event |-> [type |-> "message", message |-> "hi", id |-> NoId]]
    /\ Len(sleeps) = 1

(* ------------------- logs command: _process_log_stream ------------------ *)
(* the command as it starts: log_count = 0, nothing printed, nothing raised *)
LogsCommand == [name |-> "logs", pc |-> "stream", log_count |-> 0,
                printed |-> <<>>, raised |-> "none"]

(* one toolkit.print of a message of the command; text holds str(e) for    *)
(* the message that shows it                                                *)
Printed(m, text) == [msg |-> m, text |-> text]

(* str(e) of the StreamLogError: "HTTP <status>: <detail>" when attempt()  *)
(* raised it for a status, the error line's message otherwise               *)
error_msg(o) == [status |-> o.status, detail |-> o.detail]

(* '"HTTP <code>" in error_msg': the text starts with it when the error is  *)
(* for that status, and the detail can contain it whatever the error is     *)
Mentions(o, code) ==
    \/ o.status = code
    \/ o.detail = "see HTTP 404" /\ code = 404

(* the message that the status of the error alone calls for *)
MessageForStatus(o) ==
    IF o.status \in {401, 403} THEN Printed("invalid token", "-")
    ELSE IF o.status = 404 THEN Printed("app not found", "-")
    ELSE Printed("error", error_msg(o))

(* the except StreamLogError clause picks the message *)
LogsMessage(o) ==
    IF Mentions(o, 401) \/ Mentions(o, 403) THEN Printed("invalid token", "-")
    ELSE IF Mentions(o, 404) THEN Printed("app not found", "-")
    ELSE Printed("error", error_msg(o))

LogsUnchanged ==
    UNCHANGED <<pc, log, total_attempts, attempt_number, last_id, pos, lastLine,
                delivered, requests, sleeps, now, invocations, rotations,
                last_error, prev_cursor, outcome, sent, call, parsed, streams, pair>>

(* body of the for loop: toolkit.print(_format_log_line(log)), log_count   *)
(* += 1, and the loop asks the generator for the next entry                 *)
LogsPrintEntry ==
    /\ cli.pc = "stream"
    /\ pc = "yield_message"
    /\ pc' = "read"
    /\ cli' = [cli EXCEPT !.log_count = @ + 1]
    /\ UNCHANGED <<log, total_attempts, attempt_number, last_id, pos, lastLine,
                   delivered, requests, sleeps, now, invocations, rotations,
                   last_error, prev_cursor, outcome, sent, call, parsed, streams, pair>>

(* the generator is exhausted: "No logs found" when not following and      *)
(* nothing was printed, and the function returns                            *)
LogsReturn ==
    /\ cli.pc = "stream"
    /\ pc = "done"
    /\ outcome.kind = "returned"
    /\ cli' = [cli EXCEPT !.pc = "done",
                          !.printed = IF ~call.follow /\ cli.log_count = 0
                                      THEN Append(@, Printed("no logs", "-")) ELSE @]
    /\ LogsUnchanged

(* the except clauses: StreamLogError; TooManyRetriesError and TimeoutError;*)
(* any other exception passes through the function                          *)
LogsExcept ==
    /\ cli.pc = "stream"
    /\ pc = "done"
    /\ outcome.kind # "returned"
    /\ cli' = IF outcome.kind = "StreamLogError"
              THEN [cli EXCEPT !.pc = "done", !.raised = "typer.Exit(1)",
                               !.printed = Append(@, LogsMessage(outcome))]
              ELSE IF outcome.kind \in {"TooManyRetriesError", "TimeoutError"}
              THEN [cli EXCEPT !.pc = "done", !.raised = "typer.Exit(1)",
                               !.printed = Append(@, Printed("lost connection", "-"))]
              ELSE [cli EXCEPT !.pc = "done", !.raised = outcome.kind]
    /\ LogsUnchanged

LogsInit ==
    \E c \in AppCalls : Begin(1..MaxLogsAttempts, "loop", c, LogsCommand, NoPair)

LogsNext ==
    \/ RaiseTimeout
    \/ Invoke
    \/ RaiseTooManyRetries
    \/ Backoff
    \/ ConnectOk
    \/ ConnectNetworkError
    \/ \E status \in ErrorStatuses \cup AuthStatuses, readable \in BOOLEAN :
          ConnectStatusError(status, readable)
    \/ \E line \in AppLines, d \in Delays : AppReadLine(line, d)
    \/ AppReadEnd
    \/ \E d \in Delays : ReadError(d)
    \/ LogsPrintEntry
    \/ LogsReturn
    \/ LogsExcept

LogsSpec == LogsInit /\ [][LogsNext]_vars

(* C29: when the command is over, a stream that failed has made it raise   *)
(* typer.Exit(1) after exactly one message: the invalid-token message for a *)
(* StreamLogError for status 401 or 403, the app-not-found message for one  *)
(* for status 404, the error's text for any other StreamLogError, the       *)
(* lost-connection message for TooManyRetriesError and TimeoutError; a      *)
(* stream that ended normally has raised nothing, and "No logs found" was   *)
(* printed exactly when follow is false and no entry was delivered.         *)
C29_LogsExitAndMessage ==
    cli.pc = "done" =>
        IF outcome.kind = "returned"
        THEN /\ cli.raised = "none"
             /\ cli.printed = IF ~call.follow /\ Len(delivered) = 0
                               THEN <<Printed("no logs", "-")>> ELSE <<>>
        ELSE /\ cli.raised = "typer.Exit(1)"
             /\ cli.printed =
                  << IF outcome.kind = "StreamLogError"
                     THEN MessageForStatus(outcome)
                     ELSE Printed("lost connection", "-") >>

(* --------------------- deploy: _wait_for_deployment -------------------- *)
(* the function as its for loop starts: no event consumed, nothing raised *)
WaitCommand == [name |-> "wait", pc |-> "stream", consumed |-> <<>>, raised |-> "none"]

(* the event the generator is suspended on: "log" of the for loop *)
Yielded == Last(delivered).event

WaitUnchanged ==
    UNCHANGED <<log, total_attempts, attempt_number, last_id, pos, lastLine,
                delivered, requests, sleeps, now, invocations, rotations,
                last_error, prev_cursor, sent, call, parsed, pair>>

(* log.type == "message": progress.log(...), and the loop asks for the     *)
(* next event                                                              *)
WaitMessage ==
    /\ cli.pc = "stream"
    /\ pc = "yield_message"
    /\ pc' = "read"
    /\ cli' = [cli EXCEPT !.consumed = Append(@, Yielded)]
    /\ UNCHANGED <<outcome, streams>>
    /\ WaitUnchanged

(* log.type == "complete": the messages are logged and "break" leaves the  *)
(* loop; the generator is dropped where it is suspended, which closes its  *)
(* stream, and the function returns                                        *)
WaitComplete ==
    /\ cli.pc = "stream"
    /\ pc = "yield_terminal"
    /\ Yielded.type = "complete"
    /\ pc' = "done"
    /\ outcome' = Outcome("abandoned", 0, "-")
    /\ streams' = streams - 1
    /\ cli' = [cli EXCEPT !.pc = "done", !.consumed = Append(@, Yielded)]
    /\ WaitUnchanged

(* variant: a failed event leaves the loop with break, as complete does *)
WaitFailed_Break ==
    /\ cli.pc = "stream"
    /\ pc = "yield_terminal"
    /\ Yielded.type = "failed"
    /\ pc' = "done"
    /\ outcome' = Outcome("abandoned", 0, "-")
    /\ streams' = streams - 1
    /\ cli' = [cli EXCEPT !.pc = "done", !.consumed = Append(@, Yielded)]
    /\ WaitUnchanged

(* log.type == "failed": raise typer.Exit(1), which the except clause does *)
(* not name, so it leaves the function                                     *)
WaitFailed ==
    /\ cli.pc = "stream"
    /\ pc = "yield_terminal"
    /\ Yielded.type = "failed"
    /\ pc' = "done"
    /\ outcome' = Outcome("abandoned", 0, "-")
    /\ streams' = streams - 1
    /\ cli' = [cli EXCEPT !.pc = "done", !.consumed = Append(@, Yielded),
                          !.raised = "typer.Exit(1)"]
    /\ WaitUnchanged

(* except (StreamLogError, TooManyRetriesError, TimeoutError):             *)
(* progress.set_error(...) and raise typer.Exit(1)                         *)
WaitExcept ==
    /\ cli.pc = "stream"
    /\ pc = "done"
    /\ outcome.kind \in {"StreamLogError", "TooManyRetriesError", "TimeoutError"}
    /\ cli' = [cli EXCEPT !.pc = "done", !.raised = "typer.Exit(1)"]
    /\ UNCHANGED <<pc, outcome, streams>>
    /\ WaitUnchanged

WaitInit == Begin(1..MaxWaitAttempts, "loop", BuildCall, WaitCommand, NoPair)

WaitNext ==
    \/ RaiseTimeout
    \/ Invoke
    \/ RaiseTooManyRetries
    \/ Backoff
    \/ ConnectOk
    \/ ConnectNetworkError
    \/ \E status \in ErrorStatuses, readable \in BOOLEAN : ConnectStatusError(status, readable)
    \/ \E line \in LogLines : ServerAppend(line)
    \/ \E d \in Delays : ReadEvent(d)
    \/ \E line \in NoiseLines : ReadNoise(line)
    \/ ReadTimeoutMarker
    \/ ReadClosed
    \/ \E d \in Delays : ReadError(d)
    \/ ReconnectSleep
    \/ WaitMessage
    \/ WaitComplete
    \/ WaitFailed
    \/ WaitExcept

WaitSpec == WaitInit /\ [][WaitNext]_vars

(* C30: _wait_for_deployment returns without raising only after a          *)
(* complete event; after a failed event, and after StreamLogError,         *)
(* TooManyRetriesError or TimeoutError from the stream, it raises          *)
(* typer.Exit(1); the events it consumed are messages followed by at most   *)
(* one complete or failed event, and once it is over the stream delivers    *)
(* nothing more and is asked for nothing more.                              *)
C30_WaitOutcome ==
    /\ []((cli.pc = "done" /\ cli.raised = "none") =>
            (cli.consumed # <<>> /\ Last(cli.consumed).type = "complete"))
    /\ []((cli.pc = "done" /\ cli.consumed # <<>> /\ Last(cli.consumed).type = "failed")
            => cli.raised = "typer.Exit(1)")
    /\ []((cli.pc = "done"
            /\ outcome.kind \in {"StreamLogError", "TooManyRetriesError", "TimeoutError"})
            => cli.raised = "typer.Exit(1)")
    /\ [](\A i \in 1..Len(cli.consumed) :
            i < Len(cli.consumed) => cli.consumed[i].type = "message")
    /\ []((pc = "done" /\ cli.pc = "stream")
            => outcome.kind \in {"StreamLogError", "TooManyRetriesError", "TimeoutError"})
    /\ [][cli.pc = "done" =>
            (delivered' = delivered /\ requests' = requests /\ cli' = cli)]_vars

(* the first attempt failed on the network, the second delivered a message *)
(* and complete, and the function returned                                  *)
C30_Witness ==
    /\ cli.pc = "done"
    /\ cli.raised = "none"
    /\ Len(cli.consumed) = 2
    /\ cli.consumed[1].type = "message"
    /\ cli.consumed[2].type = "complete"
    /\ attempt_number = 1
    /\ streams = 0

(* ---------------------- deploy: _upload_deployment --------------------- *)
(* C31: the POSTs of _upload_deployment are, in this order, the request    *)
(* for the upload URL, the upload of the archive to the URL that request   *)
(* returned, and the upload-complete notification, the first and the last  *)
(* for the deployment in hand; a POST is sent only after every POST before *)
(* it came back with a success status, so upload-complete is not sent      *)
(* unless the archive upload was made and succeeded.                       *)
C31_UploadInOrder ==
    LET posts == cli.posts
    IN  /\ Len(posts) <= 3
        /\ \A i \in 1..Len(posts) :
              /\ i < Len(posts) => posts[i].result = HttpOk
              /\ i = 1 => (posts[i].to = "upload" /\ posts[i].deployment = cli.deployment)
              /\ i = 2 => (posts[i].to = cli.url /\ cli.url \in UploadUrls)
              /\ i = 3 => (posts[i].to = "upload-complete"
                           /\ posts[i].deployment = cli.deployment)

(* the URL request was answered with u2, the archive went to u2 and was    *)
(* refused with status 503: the function raised and sent nothing more      *)
C31_Witness ==
    /\ cli.pc = "done"
    /\ cli.raised = "HTTPError"
    /\ Len(cli.posts) = 2
    /\ cli.posts[2] = [to |-> "u2", deployment |-> "-", result |-> 503]
    /\ cli.interrupted = 0

(* --------------------------- deploy: deploy() -------------------------- *)
(* app ids; NoApp is None: no --app-id given, get_app_config found nothing *)
AppIds == {"app1", "app2"}
NoApp == "None"

(* deploy() as it starts.  local is what get_app_config(path_to_deploy)    *)
(* finds in the directory; login(), outside this repository's sources, is  *)
(* taken to return with the user logged in                                 *)
StartDeploy(l, c, p, s) ==
    [name |-> "deploy()", pc |-> "login", logged_in |-> l, local |-> c,
     app_config |-> c, provided_app_id |-> p, skip_wait |-> s,
     target_app_id |-> NoApp, config_writes |-> 0, deployments |-> 0,
     uploads |-> 0, raised |-> "none"]

(* if not identity.is_logged_in(): ask; "login" calls login(), anything    *)
(* else shows the waitlist form and raises typer.Exit(1)                   *)
CheckLogin(choice) ==
    /\ cli.name = "deploy()"
    /\ cli.pc = "login"
    /\ choice \in {"login", "waitlist"}
    /\ cli.logged_in => choice = "login"
    /\ cli' = IF choice = "login"
              THEN [cli EXCEPT !.pc = "resolve", !.logged_in = TRUE]
              ELSE [cli EXCEPT !.pc = "done", !.raised = "typer.Exit(1)"]
    /\ DeployUnchanged

(* variant: the comparison of the two app ids is missing, the provided id  *)
(* is used                                                                 *)
ResolveApp_ProvidedWins(configured) ==
    /\ cli.name = "deploy()"
    /\ cli.pc = "resolve"
    /\ configured \in AppIds
    /\ (cli.app_config # NoApp \/ cli.provided_app_id # NoApp) => configured = "app1"
    /\ cli' = IF cli.provided_app_id # NoApp
              THEN [cli EXCEPT !.pc = "check_app", !.target_app_id = cli.provided_app_id]
              ELSE IF cli.app_config # NoApp
              THEN [cli EXCEPT !.pc = "check_app", !.target_app_id = cli.app_config]
              ELSE [cli EXCEPT !.pc = "check_app", !.app_config = configured,
                               !.config_writes = @ + 1, !.target_app_id = configured]
    /\ DeployUnchanged

(* the app to deploy to: a provided id that differs from the configured    *)
(* one raises typer.Exit(1); else the provided id, else the configured     *)
(* one, else _configure_app, which writes the local configuration          *)
ResolveApp(configured) ==
    /\ cli.name = "deploy()"
    /\ cli.pc = "resolve"
    /\ configured \in AppIds
    /\ (cli.app_config # NoApp \/ cli.provided_app_id # NoApp) => configured = "app1"
    /\ cli' = IF /\ cli.app_config # NoApp
                 /\ cli.provided_app_id # NoApp
                 /\ cli.app_config # cli.provided_app_id
              THEN [cli EXCEPT !.pc = "done", !.raised = "typer.Exit(1)"]
              ELSE IF cli.provided_app_id # NoApp
              THEN [cli EXCEPT !.pc = "check_app", !.target_app_id = cli.provided_app_id]
              ELSE IF cli.app_config # NoApp
              THEN [cli EXCEPT !.pc = "check_app", !.target_app_id = cli.app_config]
              ELSE [cli EXCEPT !.pc = "check_app", !.app_config = configured,
                               !.config_writes = @ + 1, !.target_app_id = configured]
    /\ DeployUnchanged

(* app = _get_app(target_app_id): None for status 404, which raises        *)
(* typer.Exit(1); any other failure raises out of _get_app                 *)
CheckApp(result) ==
    /\ cli.name = "deploy()"
    /\ cli.pc = "check_app"
    /\ result \in HttpResults
    /\ cli' = IF result = HttpOk THEN [cli EXCEPT !.pc = "create"]
              ELSE IF result = 404 THEN [cli EXCEPT !.pc = "done", !.raised = "typer.Exit(1)"]
              ELSE [cli EXCEPT !.pc = "done", !.raised = "HTTPError"]
    /\ DeployUnchanged

(* archive(...) and deployment = _create_deployment(app.id) *)
CreateDeployment(result) ==
    /\ cli.name = "deploy()"
    /\ cli.pc = "create"
    /\ result \in HttpResults
    /\ cli' = IF result = HttpOk
              THEN [cli EXCEPT !.pc = "upload", !.deployments = @ + 1]
              ELSE [cli EXCEPT !.pc = "done", !.raised = "HTTPError"]
    /\ DeployUnchanged

(* _upload_deployment(deployment.id, archive_path) as a whole, and what    *)
(* follows it                                                              *)
UploadArchive(result) ==
    /\ cli.name = "deploy()"
    /\ cli.pc = "upload"
    /\ result \in HttpResults
    /\ cli' = IF result = HttpOk
              THEN [cli EXCEPT !.pc = "done", !.uploads = @ + 1]
              ELSE [cli EXCEPT !.pc = "done", !.raised = "HTTPError"]
    /\ DeployUnchanged

CommandInit ==
    \E l, s \in BOOLEAN, c, p \in AppIds \cup {NoApp} :
        Begin({STREAM_LOGS_MAX_RETRIES}, "command", BuildCall, StartDeploy(l, c, p, s), NoPair)

CommandNext ==
    \/ \E choice \in {"login", "waitlist"} : CheckLogin(choice)
    \/ \E configured \in AppIds : ResolveApp(configured)
    \/ \E result \in HttpResults : CheckApp(result)
    \/ \E result \in HttpResults : CreateDeployment(result)
    \/ \E result \in HttpResults : UploadArchive(result)

CommandSpec == CommandInit /\ [][CommandNext]_vars

(* the directory is configured for one app and another app id is provided *)
Mismatch ==
    /\ cli.local # NoApp
    /\ cli.provided_app_id # NoApp
    /\ cli.local # cli.provided_app_id

(* C32: with a local configuration and a provided app id that differs from *)
(* it, deploy() gets no further than the comparison: no deployment is       *)
(* created, no archive uploaded, the local configuration is not written,    *)
(* and when the command is over it has raised typer.Exit(1).                *)
C32_MismatchStopsDeploy ==
    Mismatch =>
        /\ cli.deployments = 0
        /\ cli.uploads = 0
        /\ cli.config_writes = 0
        /\ cli.app_config = cli.local
        /\ cli.target_app_id = NoApp
        /\ cli.pc \in {"login", "resolve", "done"}
        /\ cli.pc = "done" => cli.raised = "typer.Exit(1)"

(* logged in, configured for app1, asked to deploy to app2: over with      *)
(* typer.Exit(1)                                                           *)
C32_Witness ==
    /\ cli.pc = "done"
    /\ cli.logged_in
    /\ cli.local = "app1"
    /\ cli.provided_app_id = "app2"
    /\ cli.raised = "typer.Exit(1)"
    /\ cli.deployments = 0

(* ------------------------- utils/auth: Identity ------------------------ *)
(* A token by what _is_jwt_expired can make of it.  kind "parts": not      *)
(* three dot-separated parts; "base64": the payload is no base64;          *)
(* "nonutf8": the decoded payload is no text; "notjson": it is text but no *)
(* JSON; "nonobject": it is JSON but no object; "noexp": an object without *)
(* exp; "strexp": exp is no int; "jwt": exp is the int in field exp.       *)
Token(k, e) == [kind |-> k, exp |-> e]
NoToken == Token("None", 0)
EmptyToken == Token("empty string", 0)
JwtTokens ==
    { Token(k, 0) : k \in {"parts", "base64", "nonutf8", "notjson", "nonobject",
                            "noexp", "strexp"} }
    \cup { Token("jwt", e) : e \in 0..MaxTime }

(* _is_jwt_expired(token) at time current_time: True, False, or the        *)
(* exception that neither except clause names                              *)
_is_jwt_expired(token, current_time) ==
    IF token.kind = "parts" THEN "True"
    ELSE IF token.kind \in {"base64", "notjson"} THEN "True"
    ELSE IF token.kind = "nonutf8" THEN "UnicodeDecodeError"
    ELSE IF token.kind = "nonobject" THEN "AttributeError"
    ELSE IF token.kind = "noexp" THEN "False"
    ELSE IF token.kind = "strexp" THEN "True"
    ELSE IF current_time >= token.exp THEN "True" ELSE "False"

(* Identity.is_expired: "if not self.token: return True" *)
is_expired(token, current_time) ==
    IF token \in {NoToken, EmptyToken} THEN "True"
    ELSE _is_jwt_expired(token, current_time)

(* variant: the expiry is looked at whatever auth_mode is *)
is_logged_in_AlwaysChecksExpiry(token, auth_mode, current_time) ==
    IF token = NoToken THEN "False"
    ELSE IF is_expired(token, current_time) = "True" THEN "False"
    ELSE IF is_expired(token, current_time) = "False" THEN "True"
    ELSE is_expired(token, current_time)

(* Identity.is_logged_in *)
is_logged_in(token, auth_mode, current_time) ==
    IF token = NoToken THEN "False"
    ELSE IF auth_mode = "user" /\ is_expired(token, current_time) = "True" THEN "False"
    ELSE IF auth_mode = "user" /\ is_expired(token, current_time) # "False"
         THEN is_expired(token, current_time)
    ELSE "True"

(* what Identity() finds: the stored access token, the environment value   *)
(* of FASTAPI_CLOUD_TOKEN, and the time                                    *)
StartIdentity(stored, env, t) ==
    [name |-> "Identity", pc |-> "new", stored |-> stored, env |-> env,
     current_time |-> t, token |-> NoToken, auth_mode |-> "unset",
     logged_in |-> "not called"]

(* Identity.__init__ *)
IdentityNew ==
    /\ cli.name = "Identity"
    /\ cli.pc = "new"
    /\ cli' = IF cli.env \notin {NoToken, EmptyToken}
              THEN [cli EXCEPT !.pc = "built", !.token = cli.env, !.auth_mode = "token"]
              ELSE [cli EXCEPT !.pc = "built", !.token = cli.stored, !.auth_mode = "user"]
    /\ DeployUnchanged

(* a call of identity.is_logged_in() *)
IdentityIsLoggedIn ==
    /\ cli.name = "Identity"
    /\ cli.pc = "built"
    /\ cli' = [cli EXCEPT !.pc = "asked",
                 !.logged_in = is_logged_in(cli.token, cli.auth_mode, cli.current_time)]
    /\ DeployUnchanged

IdentityInit ==
    \E stored, env \in JwtTokens \cup {NoToken, EmptyToken}, t \in 0..MaxTime :
        Begin({STREAM_LOGS_MAX_RETRIES}, "command", BuildCall,
              StartIdentity(stored, env, t), NoPair)

IdentityNext == IdentityNew \/ IdentityIsLoggedIn

IdentitySpec == IdentityInit /\ [][IdentityNext]_vars

(* the token has not expired at time t: it parses and has no exp, or its   *)
(* exp lies after t                                                        *)
Unexpired(token, t) ==
    \/ token.kind = "noexp"
    \/ token.kind = "jwt" /\ t < token.exp

(* C33: a non-empty FASTAPI_CLOUD_TOKEN becomes the token and makes        *)
(* auth_mode "token"; without it the stored token is the token and         *)
(* auth_mode is "user".  is_logged_in() is True exactly when there is a    *)
(* token and auth_mode is "token" or the token has not expired: with an    *)
(* environment token it is always True, without any token always False.    *)
C33_EnvTokenAndLogin ==
    /\ cli.pc \in {"built", "asked"} =>
          IF cli.env \notin {NoToken, EmptyToken}
          THEN cli.token = cli.env /\ cli.auth_mode = "token"
          ELSE cli.token = cli.stored /\ cli.auth_mode = "user"
    /\ cli.pc = "asked" =>
          /\ cli.logged_in = "True" <=>
                (cli.token # NoToken
                 /\ (cli.auth_mode = "token" \/ Unexpired(cli.token, cli.current_time)))
          /\ cli.env \notin {NoToken, EmptyToken} => cli.logged_in = "True"
          /\ cli.token = NoToken => cli.logged_in = "False"

(* nothing is stored, the environment holds a token whose exp has passed:  *)
(* logged in                                                               *)
C33_Witness ==
    /\ cli.pc = "asked"
    /\ cli.stored = NoToken
    /\ cli.env = Token("jwt", 0)
    /\ cli.current_time = 1
    /\ cli.logged_in = "True"

(* --------------------------- app: posts service ------------------------ *)
(* request bodies, PostCreate and PostUpdate: title, content, and          *)
(* published, which may be left out                                        *)
Bodies ==
    [title : {"t1", "t2"}, content : {"c1", "c2"}, published : {"True", "False", "omitted"}]
NoBody == [title |-> "-", content |-> "-", published |-> "omitted"]

(* no row: what .first() returns when no row has the id *)
NoPost == [id |-> 0, title |-> "-", content |-> "-", published |-> FALSE, created_at |-> 0]

(* the row for post.dict(), where published is True unless the body says   *)
(* otherwise, with the id and created_at that the database holds for it    *)
PostRow(id, body, created_at) ==
    [id |-> id, title |-> body.title, content |-> body.content,
     published |-> (body.published # "False"), created_at |-> created_at]

(* the answer to a request, with the request it answers *)
Reply(op, id, status, request, body) ==
    [op |-> op, id |-> id, status |-> status, sent |-> request, body |-> body]

(* the service with an empty posts table; deleted holds the ids whose post *)
(* was deleted and that no post has been created with since                *)
StartPosts ==
    [name |-> "posts", table |-> [i \in 1..MaxPostId |-> NoPost], deleted |-> {},
     reply |-> Reply("none", 0, 0, NoBody, NoPost)]

(* POST /posts: one row is added under an id that no row has, created_at   *)
(* is the database's time                                                  *)
create_post(post, id, t) ==
    /\ cli.name = "posts"
    /\ post \in Bodies
    /\ id \in 1..MaxPostId
    /\ t \in 0..MaxPostTime
    /\ cli.table[id] = NoPost
    /\ cli' = [cli EXCEPT !.table[id] = PostRow(id, post, t),
                          !.deleted = @ \ {id},
                          !.reply = Reply("create_post", id, 201, post, PostRow(id, post, t))]
    /\ DeployUnchanged

(* GET /posts/{id} *)
get_post_by_id(id) ==
    /\ cli.name = "posts"
    /\ id \in 1..MaxPostId
    /\ cli' = IF cli.table[id] = NoPost
              THEN [cli EXCEPT !.reply = Reply("get_post_by_id", id, 404, NoBody, NoPost)]
              ELSE [cli EXCEPT !.reply = Reply("get_post_by_id", id, 200, NoBody, cli.table[id])]
    /\ DeployUnchanged

(* variant: a delete of an id that no post has is answered like any delete *)
delete_post_Silent(id) ==
    /\ cli.name = "posts"
    /\ id \in 1..MaxPostId
    /\ cli' = [cli EXCEPT !.table[id] = NoPost, !.deleted = @ \cup {id},
                          !.reply = Reply("delete_post", id, 204, NoBody, NoPost)]
    /\ DeployUnchanged

(* DELETE /posts/{id} *)
delete_post(id) ==
    /\ cli.name = "posts"
    /\ id \in 1..MaxPostId
    /\ cli' = IF cli.table[id] = NoPost
              THEN [cli EXCEPT !.reply = Reply("delete_post", id, 404, NoBody, NoPost)]
              ELSE [cli EXCEPT !.table[id] = NoPost, !.deleted = @ \cup {id},
                               !.reply = Reply("delete_post", id, 204, NoBody, NoPost)]
    /\ DeployUnchanged

(* variant: the update is made on the unfiltered query, so it sets the     *)
(* three columns of every row                                              *)
update_posts_NoFilter(id, post) ==
    /\ cli.name = "posts"
    /\ id \in 1..MaxPostId
    /\ post \in Bodies
    /\ cli' = IF cli.table[id] = NoPost
              THEN [cli EXCEPT !.reply = Reply("update_posts", id, 404, post, NoPost)]
              ELSE [cli EXCEPT
                      !.table = [i \in 1..MaxPostId |->
                                   IF cli.table[i] = NoPost THEN NoPost
                                   ELSE PostRow(i, post, cli.table[i].created_at)],
                      !.reply = Reply("update_posts", id, 200, post,
                                      PostRow(id, post, cli.table[id].created_at))]
    /\ DeployUnchanged

(* PUT /posts/{id}: the row with the id gets the three columns of          *)
(* post.dict(), and the row as it then is is returned                      *)
update_posts(id, post) ==
    /\ cli.name = "posts"
    /\ id \in 1..MaxPostId
    /\ post \in Bodies
    /\ cli' = IF cli.table[id] = NoPost
              THEN [cli EXCEPT !.reply = Reply("update_posts", id, 404, post, NoPost)]
              ELSE [cli EXCEPT
                      !.table[id] = PostRow(id, post, cli.table[id].created_at),
                      !.reply = Reply("update_posts", id, 200, post,
                                      PostRow(id, post, cli.table[id].created_at))]
    /\ DeployUnchanged

PostsInit == Begin({STREAM_LOGS_MAX_RETRIES}, "command", BuildCall, StartPosts, NoPair)

PostsNext ==
    \/ \E post \in Bodies, id \in 1..MaxPostId, t \in 0..MaxPostTime : create_post(post, id, t)
    \/ \E id \in 1..MaxPostId : get_post_by_id(id)
    \/ \E id \in 1..MaxPostId : delete_post(id)
    \/ \E id \in 1..MaxPostId, post \in Bodies : update_posts(id, post)

PostsSpec == PostsInit /\ [][PostsNext]_vars

(* the request just answered is one of the three that name a post *)
ByIdRequest(r) == r.op \in {"get_post_by_id", "delete_post", "update_posts"}

(* C34: get_post_by_id, delete_post and update_posts for an id that no     *)
(* stored post has are answered with 404 and leave the table as it is; a   *)
(* successful delete_post removes the post, and from then on the three     *)
(* requests with its id are answered with 404, until create_post makes a   *)
(* post with that id.                                                      *)
C34_MissingPostIs404 ==
    /\ [](\A id \in cli.deleted : cli.table[id] = NoPost)
    /\ [][cli' # cli =>
            LET r == cli'.reply
            IN  /\ (ByIdRequest(r) /\ (cli.table[r.id] = NoPost \/ r.id \in cli.deleted))
                      => (r.status = 404 /\ cli'.table = cli.table)
                /\ (r.op = "delete_post" /\ cli.table[r.id] # NoPost)
                      => (r.status = 204 /\ cli'.table[r.id] = NoPost
                          /\ r.id \in cli'.deleted)
                /\ \A id \in cli.deleted :
                      id \notin cli'.deleted => (r.op = "create_post" /\ r.id = id)]_vars

(* post 1 was deleted, post 2 is stored, and an update of post 1 was       *)
(* answered with 404                                                       *)
C34_Witness ==
    /\ cli.name = "posts"
    /\ 1 \in cli.deleted
    /\ cli.table[2] # NoPost
    /\ cli.reply.op = "update_posts"
    /\ cli.reply.id = 1
    /\ cli.reply.status = 404

(* C35: a successful update_posts gives the post with the id the title,    *)
(* content and published of the body, published being true when the body   *)
(* leaves it out, keeps its id and created_at, leaves every other row as    *)
(* it is and returns the row; get_post_by_id returns the stored row, so     *)
(* the updated one after an update; create_post adds one row, under an id   *)
(* that had none, and leaves every other row as it is.                      *)
C35_UpdateAndCreateFrame ==
    [][cli' # cli =>
         LET r == cli'.reply
             old == cli.table[r.id]
             new == cli'.table[r.id]
             OthersKept == \A j \in 1..MaxPostId : j # r.id => cli'.table[j] = cli.table[j]
         IN  /\ (r.op = "update_posts" /\ r.status = 200) =>
                   /\ new.title = r.sent.title
                   /\ new.content = r.sent.content
                   /\ new.published = (r.sent.published \in {"True", "omitted"})
                   /\ new.id = old.id /\ new.id = r.id
                   /\ new.created_at = old.created_at
                   /\ OthersKept
                   /\ r.body = new
             /\ (r.op = "get_post_by_id" /\ r.status = 200) =>
                   (r.body = old /\ cli'.table = cli.table)
             /\ r.op = "create_post" =>
                   /\ r.status = 201
                   /\ old = NoPost /\ new # NoPost
                   /\ new = PostRow(r.id, r.sent, new.created_at)
                   /\ OthersKept]_vars

(* post 2, created at time 1 as t1/c1 and unpublished, was updated with a  *)
(* body without published: it is t2/c2 and published, still created at 1,  *)
(* and post 1 is stored beside it                                          *)
C35_Witness ==
    /\ cli.name = "posts"
    /\ cli.reply.op = "update_posts"
    /\ cli.reply.status = 200
    /\ cli.reply.id = 2
    /\ cli.reply.sent = [title |-> "t2", content |-> "c2", published |-> "omitted"]
    /\ cli.table[2] = [id |-> 2, title |-> "t2", content |-> "c2", published |-> TRUE,
                       created_at |-> 1]
    /\ cli.table[1] # NoPost

====
